---- MODULE Spec2Model ----
(***************************************************************************)
(* Contribution review state machine of the kr-glossary automation:        *)
(* issue labeling, term-issue validation (basic and enhanced variants)     *)
(* and approval checking (basic and enhanced variants), acting on one      *)
(* issue of the issue platform.                                            *)
(*                                                                         *)
(* Text encoding.  Module text is ASCII, so Hangul and emoji of the source *)
(* are transliterated: a Hangul word is a bracketed romanisation           *)
(* ("[seungin]" is U+C2B9 U+C778, the approval word), an emoji is a        *)
(* parenthesised name ("(check)" is U+2705).  A transliterated word has no *)
(* upper-case letter, as Hangul has no case.  Where only the length of a   *)
(* text matters (definitions, the Korean translation) one character of the *)
(* model string stands for one character of the source string.             *)
(*                                                                         *)
(* Platform.  list-comments and get-issue return the whole current state   *)
(* of the issue when they succeed (no paging is modelled).                 *)
(***************************************************************************)
EXTENDS Integers, Sequences, FiniteSets, TLC

VARIABLES
    issue,       \* the issue's form and section contents (what the submitter edits)
    labels,      \* the set of labels on the issue
    comments,    \* the issue's comment history, oldest first
    dispatches,  \* number of create_pr_from_issue repository-dispatch events emitted
    dataset,     \* the terms-a-z.json snapshot
    adminsFile,  \* the content of .github/config/admins.json
    platformOK,  \* TRUE: every platform call succeeds; FALSE: calls of a run may fail
    deploy,      \* which validator and which approval checker the workflows run
    pending,     \* comment events not yet delivered to the approval workflow
    ran,         \* history: run kinds completed without a failed call since the
                 \* last new comment or change of the platform's health
    procs,       \* approval runs in progress, one platform call at a time
    assignees,   \* the identities assigned to the issue
    assignment,  \* history: the report of the last reviewer-assignment run
    contributors,   \* the content of data/contributors/active-contributors.json
    organizations,  \* the content of data/organizations/verified-organizations.json
    issueData,      \* the outcome of the last extraction run: issue_data.json
    collaborators   \* the repository's collaborators and their permission level

vars == <<issue, labels, comments, dispatches, dataset, adminsFile, platformOK,
          deploy, pending, ran, procs, assignees, assignment, contributors,
          organizations, issueData, collaborators>>

\* what the reviewer assignment writes besides the comment history
avars == <<assignees, assignment>>

\* the files only the extractor and the dataset writers touch, and the platform's
\* collaborator list, which no workflow changes
dvars == <<contributors, organizations, issueData, collaborators>>

MaxComments == 6     \* length of the comment history
MaxReviews == 2      \* comments posted by people
MaxDispatches == 2   \* merge-trigger events counted
MaxDefects == 1      \* sections of a submitted issue that differ from a good one
MaxFaults == 1       \* platform calls that fail in one run
MaxRuns == 2         \* approval runs followed call by call
MaxRoster == 3       \* entries of the admins object the assigner reads
MaxAssignees == 2    \* auto_assignment.max_assignees
MaxAssignments == 1  \* runs of the assignment workflow on one issue
MaxRecords == 3      \* records of a dataset file

None == "none"
Bot == "github-actions[bot]"

(***************************************************************************)
(* Strings: str.lower, str.strip, substring search, anchored matches.      *)
(***************************************************************************)
UpperAlpha == "ABCDEFGHIJKLMNOPQRSTUVWXYZ"
LowerAlpha == "abcdefghijklmnopqrstuvwxyz"

Char(s, i) == SubSeq(s, i, i)

ToLower ==
    [c \in {Char(UpperAlpha, i) : i \in 1..Len(UpperAlpha)} |->
        Char(LowerAlpha, CHOOSE i \in 1..Len(UpperAlpha) : Char(UpperAlpha, i) = c)]

LowerChar(c) == IF c \in DOMAIN ToLower THEN ToLower[c] ELSE c

RECURSIVE Lower(_)
\* str.lower, halving the text
Lower(s) ==
    IF s = "" THEN ""
    ELSE IF Len(s) = 1 THEN LowerChar(s)
    ELSE Lower(SubSeq(s, 1, Len(s) \div 2)) \o Lower(SubSeq(s, Len(s) \div 2 + 1, Len(s)))

ToUpper ==
    [c \in {Char(LowerAlpha, i) : i \in 1..Len(LowerAlpha)} |->
        Char(UpperAlpha, CHOOSE i \in 1..Len(LowerAlpha) : Char(LowerAlpha, i) = c)]

UpperChar(c) == IF c \in DOMAIN ToUpper THEN ToUpper[c] ELSE c

RECURSIVE Upper(_)
\* str.upper, halving the text
Upper(s) ==
    IF s = "" THEN ""
    ELSE IF Len(s) = 1 THEN UpperChar(s)
    ELSE Upper(SubSeq(s, 1, Len(s) \div 2)) \o Upper(SubSeq(s, Len(s) \div 2 + 1, Len(s)))

IsSpace(c) == c = " "

RECURSIVE LStrip(_)
LStrip(s) == IF s # "" /\ IsSpace(Char(s, 1)) THEN LStrip(SubSeq(s, 2, Len(s))) ELSE s

RECURSIVE RStrip(_)
RStrip(s) ==
    IF s # "" /\ IsSpace(Char(s, Len(s))) THEN RStrip(SubSeq(s, 1, Len(s) - 1)) ELSE s

Strip(s) == LStrip(RStrip(s))

\* re.search of a literal: p occurs somewhere in t
Has(t, p) == \E i \in 1..(Len(t) - Len(p) + 1) : SubSeq(t, i, i + Len(p) - 1) = p

AllSpaces(s) == \A i \in 1..Len(s) : IsSpace(Char(s, i))

\* a pattern is a literal, a gap of at least `gap` white-space characters, and a
\* second literal (empty second literal and gap 0: a plain literal)
Pat(a, gap, b) == [a |-> a, gap |-> gap, b |-> b]

\* the pattern matches t starting at position i and ending at position j
MatchSpan(t, p, i, j) ==
    /\ j - i + 1 >= Len(p.a) + p.gap + Len(p.b)
    /\ SubSeq(t, i, i + Len(p.a) - 1) = p.a
    /\ SubSeq(t, j - Len(p.b) + 1, j) = p.b
    /\ AllSpaces(SubSeq(t, i + Len(p.a), j - Len(p.b)))

\* re.match of ^\s*<pattern>\s*$ on a stripped text: the pattern spans the text
FullMatch(t, p) == MatchSpan(t, p, 1, Len(t))

\* re.search of <pattern>: the pattern spans some part of the text
SearchMatch(t, p) ==
    \E i \in 1..Len(t) : \E j \in (i - 1)..Len(t) : MatchSpan(t, p, i, j)

(***************************************************************************)
(* Reviewer directory and approval rules.                                  *)
(***************************************************************************)
Wildcard == "[jeonche] [yeongyeok]"

\* AdminApprovalChecker.__init__: self.admins, the built-in roster
BuiltinAdmins ==
    [x \in {"ai-expert-1", "nlp-specialist", "cv-researcher"} |->
        CASE x = "ai-expert-1"    -> [role |-> "owner", specializations |-> {"ML", "DL", "NLP"}]
          [] x = "nlp-specialist" -> [role |-> "maintainer", specializations |-> {"NLP", "GAI"}]
          [] x = "cv-researcher"  -> [role |-> "reviewer", specializations |-> {"CV", "DL"}]]

AllRoles == {"reviewer", "maintainer", "owner"}

Rule(min, roles, match) ==
    [min_approvals |-> min, required_roles |-> roles, specialization_match |-> match]

\* load_admin_config: the configuration returned when admins.json is not served
DefaultConfig ==
    [admins |-> BuiltinAdmins,
     approval_rules |->
        [c \in {"term-addition", "term-modification", "contributor-addition"} |->
            CASE c = "term-addition"        -> Rule(1, AllRoles, TRUE)
              [] c = "term-modification"    -> Rule(1, AllRoles, FALSE)
              [] c = "contributor-addition" -> Rule(2, {"maintainer", "owner"}, FALSE)]]

\* load_admin_config: the decoded file when the fetch succeeds, else the default
LoadAdminConfig(fetched, file) == IF fetched THEN file ELSE DefaultConfig

\* The admins.json documents the model runs with (inputs).  Both keep the
\* identities of the built-in roster so that one set of comment authors serves all.
FileConfigStrict ==
    [admins |->
        [x \in {"ai-expert-1", "nlp-specialist"} |->
            CASE x = "ai-expert-1"    -> [role |-> "owner", specializations |-> {Wildcard}]
              [] x = "nlp-specialist" -> [role |-> "maintainer", specializations |-> {"NLP", "GAI"}]],
     approval_rules |->
        [c \in {"term-addition", "contributor-addition"} |->
            CASE c = "term-addition"        -> Rule(2, {"maintainer", "owner"}, TRUE)
              [] c = "contributor-addition" -> Rule(2, {"maintainer", "owner"}, FALSE)]]

FileConfigs == {FileConfigStrict, DefaultConfig}

CategoryLabels ==
    {"term-addition", "term-modification", "contributor-addition", "admin-addition",
     "organization-addition"}

\* get_issue_category: the first label of the issue that names a category.  The
\* platform fixes the order of the returned labels; every order is allowed for.
IssueCategories(issueLabels) ==
    IF issueLabels \cap CategoryLabels = {} THEN {None} ELSE issueLabels \cap CategoryLabels

\* get_issue_specialization: the category line of the body mapped to a domain tag
CategoryMapping(text) ==
    CASE text = "ML (Machine Learning)"             -> "ML"
      [] text = "DL (Deep Learning)"                -> "DL"
      [] text = "NLP (Natural Language Processing)" -> "NLP"
      [] text = "CV (Computer Vision)"              -> "CV"
      [] text = "RL (Reinforcement Learning)"       -> "RL"
      [] text = "GAI (Generative AI)"               -> "GAI"
      [] OTHER                                      -> None

GetIssueSpecialization(iss) ==
    IF iss.sections["category"] = "" THEN None
    ELSE CategoryMapping(Strip(iss.sections["category"]))

IsAdmin(username, cfg) == username \in DOMAIN cfg.admins

GetAdminRole(username, cfg) ==
    IF username \in DOMAIN cfg.admins THEN cfg.admins[username].role ELSE None

HasSpecialization(username, required, cfg) ==
    /\ username \in DOMAIN cfg.admins
    /\ \/ required \in cfg.admins[username].specializations
       \/ Wildcard \in cfg.admins[username].specializations

(***************************************************************************)
(* Comment classification.                                                 *)
(***************************************************************************)
\* AdminApprovalChecker.approval_patterns
ApprovalPatterns ==
    {Pat("[seungin]", 0, ""), Pat("approve", 0, ""), Pat("approved", 0, ""),
     Pat("lgtm", 0, ""), Pat("looks good to me", 0, ""), Pat("(check)", 0, "[seungin]"),
     Pat("/approve", 0, ""), Pat("(thumbsup)", 0, "[seungin]")}

\* AdminApprovalChecker.rejection_patterns
RejectionPatterns ==
    {Pat("[geobu]", 0, ""), Pat("reject", 0, ""), Pat("rejected", 0, ""),
     Pat("[banryeo]", 0, ""), Pat("(cross)", 0, "[banryeo]"), Pat("/reject", 0, ""),
     Pat("need", 1, "work"), Pat("needs", 1, "work"),
     Pat("[byeongyeong]", 0, "[yocheong]")}

IsApprovalComment(body) ==
    \E p \in ApprovalPatterns : FullMatch(Strip(Lower(body)), p)

IsRejectionComment(body) ==
    \E p \in RejectionPatterns : FullMatch(Strip(Lower(body)), p)

\* ApprovalChecker.approval_patterns (basic variant), searched ignoring case
BasicApprovalPatterns ==
    {Pat("(check)", 0, "[seungin]"), Pat("/approve", 0, ""), Pat("lgtm", 0, ""),
     Pat("[seungin][hamnida]", 0, ""), Pat("approved", 0, ""), Pat("(thumbsup)", 0, "")}

BasicIsApprovalComment(body) ==
    \E p \in BasicApprovalPatterns : SearchMatch(Lower(body), p)

\* ApprovalChecker.admins (basic variant)
BasicAdmins == {"admin1", "admin2", "admin3"}

BasicIsAdmin(username) == username \in BasicAdmins

\* what the people of the model write in a comment
CommentTexts == {"LGTM", "reject", "not approved"}

\* the bodies of the comments the workflows post
NoticeBodies ==
    {"labeling:welcome", "validation:completion-request", "validation:suggestions",
     "validation:success", "validation:missing-fields", "validation:data-quality",
     "validation:duplicate", "approval:complete", "approval:rejected",
     "approval:pending", "approval:progress"}

\* test_approval_patterns: the comments of the authors' test and the result it
\* expects of is_approval_comment.  (check) stands for the check-mark sign.
TestCases ==
    [body \in {"LGTM", "lgtm", "[seungin]", "[seungin][hamnida]", "(check) [seungin]",
               "/approve", "approved", "[johseumnida]", "[gwaenchanhseumnida]",
               "[igeoseun] [seungin][i] [animnida]", "[geobu][hamnida]",
               "[sujeong][i] [piryo][hamnida]"} |->
        body \notin {"[igeoseun] [seungin][i] [animnida]", "[geobu][hamnida]",
                     "[sujeong][i] [piryo][hamnida]"}]

\* the test's comments, and some of them in another case
TestTexts == DOMAIN TestCases \cup {"Lgtm", "APPROVED", "/Approve"}

\* generate_assignment_comment, "how to approve": the phrases it tells reviewers
\* to post for an approval and for a change request, the latter followed by
\* feedback
InstructedApprovals == {"[seungin]", "approve", "LGTM"}

InstructedChangeRequests ==
    {"[sujeong] [yocheong]", "needs work",
     "[sujeong] [yocheong]: shorten the definition",
     "needs work: shorten the definition"}

\* the three classifiers, tabulated over the bodies that occur
Classified ==
    [body \in CommentTexts \cup NoticeBodies \cup TestTexts \cup InstructedApprovals
               \cup InstructedChangeRequests |->
        [approval |-> IsApprovalComment(body),
         rejection |-> IsRejectionComment(body),
         basic_approval |-> BasicIsApprovalComment(body)]]

\* is_approval_comment, is_rejection_comment and the basic is_approval_comment, as
\* the runs evaluate them
Approves(body) ==
    IF body \in DOMAIN Classified THEN Classified[body].approval
    ELSE IsApprovalComment(body)

Rejects(body) ==
    IF body \in DOMAIN Classified THEN Classified[body].rejection
    ELSE IsRejectionComment(body)

BasicApproves(body) ==
    IF body \in DOMAIN Classified THEN Classified[body].basic_approval
    ELSE BasicIsApprovalComment(body)

(***************************************************************************)
(* AdminApprovalChecker.check_approval_status on what the run fetched:     *)
(* cfg the loaded configuration, category the category read from the       *)
(* labels, iss the issue, history the comments returned.                   *)
(***************************************************************************)
RuleFor(cfg, category) ==
    IF category \in DOMAIN cfg.approval_rules
    THEN cfg.approval_rules[category]
    ELSE Rule(1, AllRoles, FALSE)

\* the filter letting every member of the directory through
EligibleInDirectory(author, cfg, rule, specialization) == IsAdmin(author, cfg)

\* the filter applied to each comment's author before classification
Eligible(author, cfg, rule, specialization) ==
    /\ IsAdmin(author, cfg)
    /\ GetAdminRole(author, cfg) \in rule.required_roles
    /\ (rule.specialization_match /\ specialization # None)
          => HasSpecialization(author, specialization, cfg)

\* approvals: one entry per approving comment of an eligible author, in order
RECURSIVE ApprovalEntries(_, _, _, _)
ApprovalEntries(history, cfg, rule, specialization) ==
    IF history = <<>> THEN <<>>
    ELSE LET c == Head(history)
             rest == ApprovalEntries(Tail(history), cfg, rule, specialization)
         IN IF Eligible(c.author, cfg, rule, specialization) /\ Approves(c.body)
            THEN <<c.author>> \o rest
            ELSE rest

RECURSIVE RejectionEntries(_, _, _, _)
RejectionEntries(history, cfg, rule, specialization) ==
    IF history = <<>> THEN <<>>
    ELSE LET c == Head(history)
             rest == RejectionEntries(Tail(history), cfg, rule, specialization)
         IN IF /\ Eligible(c.author, cfg, rule, specialization)
               /\ ~Approves(c.body)
               /\ Rejects(c.body)
            THEN <<c.author>> \o rest
            ELSE rest

\* the approval count compared against min_approvals
CountApprovals(entries) == Len(entries)

\* check_approval_status deciding on the approval count alone
CheckApprovalStatusCountOnly(cfg, issueFetched, category, iss, history) ==
    IF ~issueFetched THEN [error |-> "no-issue", approved |-> FALSE]
    ELSE IF category = None THEN [error |-> "no-category", approved |-> FALSE]
    ELSE LET rule == RuleFor(cfg, category)
             specialization == GetIssueSpecialization(iss)
             approvals == ApprovalEntries(history, cfg, rule, specialization)
             rejections == RejectionEntries(history, cfg, rule, specialization)
         IN [error |-> None,
             approved |-> CountApprovals(approvals) >= rule.min_approvals,
             category |-> category,
             specialization |-> specialization,
             min_approvals |-> rule.min_approvals,
             current_approvals |-> CountApprovals(approvals),
             approval_details |-> approvals,
             rejection_details |-> rejections]

\* the history up to its first rejection by an eligible reviewer
RECURSIVE UntilRejection(_, _, _, _)
UntilRejection(history, cfg, rule, specialization) ==
    IF history = <<>> THEN <<>>
    ELSE IF RejectionEntries(<<Head(history)>>, cfg, rule, specialization) # <<>>
         THEN <<Head(history)>>
         ELSE <<Head(history)>> \o UntilRejection(Tail(history), cfg, rule, specialization)

\* check_approval_status deciding comment by comment, in the order of delivery:
\* quorum once reached stands, and nothing after the first rejection is read
CheckApprovalStatusIncremental(cfg, issueFetched, category, iss, history) ==
    IF ~issueFetched THEN [error |-> "no-issue", approved |-> FALSE]
    ELSE IF category = None THEN [error |-> "no-category", approved |-> FALSE]
    ELSE LET rule == RuleFor(cfg, category)
             specialization == GetIssueSpecialization(iss)
             read == UntilRejection(history, cfg, rule, specialization)
             approvals == ApprovalEntries(read, cfg, rule, specialization)
             rejections == RejectionEntries(read, cfg, rule, specialization)
         IN [error |-> None,
             approved |-> CountApprovals(approvals) >= rule.min_approvals,
             category |-> category,
             specialization |-> specialization,
             min_approvals |-> rule.min_approvals,
             current_approvals |-> CountApprovals(approvals),
             approval_details |-> approvals,
             rejection_details |-> rejections]

CheckApprovalStatus(cfg, issueFetched, category, iss, history) ==
    IF ~issueFetched THEN [error |-> "no-issue", approved |-> FALSE]
    ELSE IF category = None THEN [error |-> "no-category", approved |-> FALSE]
    ELSE LET rule == RuleFor(cfg, category)
             specialization == GetIssueSpecialization(iss)
             approvals == ApprovalEntries(history, cfg, rule, specialization)
             rejections == RejectionEntries(history, cfg, rule, specialization)
         IN [error |-> None,
             approved |-> CountApprovals(approvals) >= rule.min_approvals
                            /\ Len(rejections) = 0,
             category |-> category,
             specialization |-> specialization,
             min_approvals |-> rule.min_approvals,
             current_approvals |-> CountApprovals(approvals),
             approval_details |-> approvals,
             rejection_details |-> rejections]

(***************************************************************************)
(* The issue.  sections[f] is the text the validator's pattern for field f *)
(* captures from the body ("" when the section is absent or blank); agreed *)
(* is the list of checked items of the agreement section.  The Korean      *)
(* translation is written with one stand-in character per Hangul syllable  *)
(* (the characters { | } ~), so that its length is the source's length.    *)
(***************************************************************************)
RequiredFields ==
    <<"contribution_type", "term_english", "term_korean", "category",
      "definition_korean", "definition_english", "usage_examples", "references",
      "github_username">>

FieldIds == {RequiredFields[i] : i \in 1..Len(RequiredFields)} \cup {"email"}

NoResponse == "_No response_"
ExamplePrefix == "[ye]:"
KoreanMarker == "[hangugeo]:"
EnglishMarker == "[yeongeo]:"

RECURSIVE Text(_)
\* a text of n characters
Text(n) ==
    IF n = 0 THEN ""
    ELSE IF n % 2 = 1 THEN "d" \o Text(n - 1)
    ELSE LET half == Text(n \div 2) IN half \o half

StartsWith(t, p) == Len(t) >= Len(p) /\ SubSeq(t, 1, Len(p)) = p

\* number of occurrences of the literal p in t (re.findall of a literal)
CountOcc(t, p) ==
    Cardinality({i \in 1..(Len(t) - Len(p) + 1) : SubSeq(t, i, i + Len(p) - 1) = p})

\* every character of t is one of the characters of class
AllIn(t, class) == \A i \in 1..Len(t) : Has(class, Char(t, i))

Digits == "0123456789"
Alnum == UpperAlpha \o LowerAlpha \o Digits
Letters == UpperAlpha \o LowerAlpha

\* as Python's dict: the fields of data are those with a value
InData(data, f) == data[f] # ""

\* enhanced parse_issue_body: the stripped capture, dropped when empty or the
\* literal no-response sentinel
ParseEnhanced(iss) ==
    [f \in FieldIds |->
        LET value == Strip(iss.sections[f])
        IN IF value # "" /\ value # NoResponse THEN value ELSE ""]

\* basic parse_issue_body: dropped when empty or starting with a placeholder
ParseBasic(iss) ==
    [f \in FieldIds |->
        LET value == Strip(iss.sections[f])
        IN IF /\ f # "email"
              /\ value # ""
              /\ ~StartsWith(value, ExamplePrefix)
              /\ ~StartsWith(value, NoResponse)
              /\ ~StartsWith(value, "placeholder")
           THEN value ELSE ""]

\* validate_required_fields: the absent fields in the order of the field list
RECURSIVE MissingFrom(_, _)
MissingFrom(data, fields) ==
    IF fields = <<>> THEN <<>>
    ELSE IF ~InData(data, Head(fields)) \/ Strip(data[Head(fields)]) = ""
         THEN <<Head(fields)>> \o MissingFrom(data, Tail(fields))
         ELSE MissingFrom(data, Tail(fields))

ValidateRequiredFields(data) == MissingFrom(data, RequiredFields)

\* str.strip('@') and str.replace('@', '')
RECURSIVE StripAt(_)
StripAt(s) ==
    IF s # "" /\ Char(s, 1) = "@" THEN StripAt(SubSeq(s, 2, Len(s)))
    ELSE IF s # "" /\ Char(s, Len(s)) = "@" THEN StripAt(SubSeq(s, 1, Len(s) - 1))
    ELSE s

RECURSIVE RemoveAt(_)
RemoveAt(s) ==
    IF s = "" THEN ""
    ELSE IF Len(s) = 1 THEN (IF s = "@" THEN "" ELSE s)
    ELSE RemoveAt(SubSeq(s, 1, Len(s) \div 2))
         \o RemoveAt(SubSeq(s, Len(s) \div 2 + 1, Len(s)))

\* ^[a-zA-Z0-9]([a-zA-Z0-9-]{0,37}[a-zA-Z0-9])?$
UsernameOkEnhanced(u) ==
    /\ Len(u) \in 1..39
    /\ AllIn(u, Alnum \o "-")
    /\ Has(Alnum, Char(u, 1))
    /\ Has(Alnum, Char(u, Len(u)))

\* ^[a-zA-Z0-9]([a-zA-Z0-9-]){0,38}$
UsernameOkBasic(u) ==
    /\ Len(u) \in 1..39
    /\ AllIn(u, Alnum \o "-")
    /\ Has(Alnum, Char(u, 1))

\* ^[a-zA-Z0-9._%+-]+@[a-zA-Z0-9.-]+\.[a-zA-Z]{2,}$
EmailOk(e) ==
    \E at \in 2..Len(e) : \E dot \in (at + 2)..(Len(e) - 2) :
        /\ Char(e, at) = "@"
        /\ Char(e, dot) = "."
        /\ AllIn(SubSeq(e, 1, at - 1), Alnum \o "._%+-")
        /\ AllIn(SubSeq(e, at + 1, dot - 1), Alnum \o ".-")
        /\ AllIn(SubSeq(e, dot + 1, Len(e)), Letters)

MinKoreanDefinition == 50
MinEnglishDefinition == 30
MinKoreanTerm == 2
AdvisedKoreanDefinition == 100
AdvisedEnglishDefinition == 60
BasicMinDefinition == 20

\* a sequence holding x when cond, else empty
When(cond, x) == IF cond THEN <<x>> ELSE <<>>

\* validate_field_formats
ValidateFieldFormats(data) ==
    When(InData(data, "term_english")
            /\ ~AllIn(data["term_english"], Alnum \o " -_()"),
         "format:term_english")
    \o When(InData(data, "term_korean") /\ Len(data["term_korean"]) < MinKoreanTerm,
            "format:term_korean")
    \o When(InData(data, "definition_korean")
               /\ Len(data["definition_korean"]) < MinKoreanDefinition,
            "format:definition_korean")
    \o When(InData(data, "definition_english")
               /\ Len(data["definition_english"]) < MinEnglishDefinition,
            "format:definition_english")
    \o When(InData(data, "github_username")
               /\ ~UsernameOkEnhanced(StripAt(data["github_username"])),
            "format:github_username")
    \o When(InData(data, "email") /\ ~EmailOk(data["email"]), "format:email")

\* validate_content_quality, first component: the quality errors
QualityErrors(data) ==
    IF ~InData(data, "usage_examples") THEN <<>>
    ELSE LET examples == data["usage_examples"]
         IN When(~Has(examples, KoreanMarker) \/ ~Has(examples, EnglishMarker),
                 "quality:examples-both-languages")
            \o When(CountOcc(examples, KoreanMarker) < 1
                       \/ CountOcc(examples, EnglishMarker) < 1,
                    "quality:examples-one-each")

ReliableSources ==
    {"arxiv.org", "scholar.google", "ieee.org", "acm.org", "springer.com", "nature.com",
     "sciencedirect.com"}

\* https?://[^\s]+ occurs in t
HasUrl(t) ==
    \E scheme \in {"http://", "https://"} :
        \E i \in 1..(Len(t) - Len(scheme)) :
            /\ SubSeq(t, i, i + Len(scheme) - 1) = scheme
            /\ ~IsSpace(Char(t, i + Len(scheme)))

\* validate_content_quality, second component: the improvement suggestions
Improvements(data) ==
    (IF ~InData(data, "usage_examples") THEN <<>>
     ELSE LET examples == data["usage_examples"]
          IN When(/\ ~(CountOcc(examples, KoreanMarker) < 1
                         \/ CountOcc(examples, EnglishMarker) < 1)
                  /\ CountOcc(examples, KoreanMarker) = 1
                  /\ CountOcc(examples, EnglishMarker) = 1,
                  "suggest:more-examples"))
    \o (IF ~InData(data, "references") THEN <<>>
        ELSE LET references == data["references"]
             IN When(~HasUrl(references), "suggest:reference-url")
                \o When(~\E src \in ReliableSources : Has(Lower(references), src),
                        "suggest:reliable-source"))
    \o (IF ~(InData(data, "definition_korean") /\ InData(data, "definition_english"))
        THEN <<>>
        ELSE When(Len(data["definition_korean"]) < AdvisedKoreanDefinition,
                  "suggest:longer-korean-definition")
             \o When(Len(data["definition_english"]) < AdvisedEnglishDefinition,
                     "suggest:longer-english-definition"))

RequiredAgreements ==
    <<"agree-open-source-license", "agree-accurate-and-verified",
      "agree-community-guidelines">>

\* validate_required_checkboxes: the required statements no checked item contains
RECURSIVE MissingAgreementsFrom(_, _)
MissingAgreementsFrom(agreed, required) ==
    IF required = <<>> THEN <<>>
    ELSE When(~\E item \in agreed : Has(item, Head(required)),
              "agreement:" \o Head(required))
         \o MissingAgreementsFrom(agreed, Tail(required))

ValidateRequiredCheckboxes(iss) == MissingAgreementsFrom(iss.agreed, RequiredAgreements)

\* enhanced check_duplicate_terms over the fetched list of terms: the message for
\* the first entry that matches, None when none does or the fetch failed
RECURSIVE FirstDuplicate(_, _, _)
FirstDuplicate(terms, english, korean) ==
    IF terms = <<>> THEN None
    ELSE IF Lower(Head(terms).english) = english
         THEN "duplicate:english:" \o Head(terms).id
         ELSE IF Lower(Head(terms).korean) = korean
              THEN "duplicate:korean:" \o Head(terms).id
              ELSE FirstDuplicate(Tail(terms), english, korean)

CheckDuplicateTermsEnhanced(data, fetched, terms) ==
    IF ~InData(data, "term_english") THEN None
    ELSE IF ~fetched THEN None
    ELSE FirstDuplicate(terms, Lower(data["term_english"]), Lower(data["term_korean"]))

\* basic check_duplicate_terms
CheckDuplicateTermsBasic(english, korean, fetched, terms) ==
    /\ fetched
    /\ \E i \in 1..Len(terms) :
          \/ Lower(terms[i].english) = Lower(english)
          \/ terms[i].korean = korean

\* basic validate_data_quality
ValidateDataQuality(fields) ==
    When(InData(fields, "definition_korean")
            /\ Len(fields["definition_korean"]) < BasicMinDefinition,
         "quality:definition_korean")
    \o When(InData(fields, "definition_english")
               /\ Len(fields["definition_english"]) < BasicMinDefinition,
            "quality:definition_english")
    \o When(InData(fields, "github_username")
               /\ ~UsernameOkBasic(RemoveAt(fields["github_username"])),
            "quality:github_username")

(***************************************************************************)
(* Labeling: IssueAutoLabeler.detect_issue_type.  The content searched is  *)
(* the body and the title, lower-cased; `.` does not cross a line end, so  *)
(* each pattern is searched line by line.                                  *)
(***************************************************************************)
\* the heading lines an issue form renders into the body
FormHeadings(form) ==
    IF form = "term"
    THEN {"### [giyeo] [yuhyeong]", "### [yeongeo] [yongeo]", "### [hangugeo] [beonyeok]",
          "### [kategori]", "### [hangugeo] [jeongui]", "### [yeongeo] [jeongui]",
          "### [sayong] [yesi]", "### [chamgo] [munheon]", "### GitHub [sayongjamyeong]",
          "### [dongui] [sahang]"}
    ELSE {}

ContentLines(iss) ==
    {Lower(l) : l \in FormHeadings(iss.form)
                       \cup {iss.sections[f] : f \in FieldIds} \cup {iss.title}}

RECURSIVE InOrder(_, _)
\* the literals of lits occur in line in this order, without overlap (a.*b.*c)
InOrder(line, lits) ==
    IF lits = <<>> THEN TRUE
    ELSE \E i \in 1..(Len(line) - Len(Head(lits)) + 1) :
            /\ SubSeq(line, i, i + Len(Head(lits)) - 1) = Head(lits)
            /\ InOrder(SubSeq(line, i + Len(Head(lits)), Len(line)), Tail(lits))

TermPatterns ==
    {<<"[yeongeo] [yongeo]">>, <<"[hangugeo] [beonyeok]">>, <<"term", "translation">>,
     <<"[giyeo] [yuhyeong]", "[saeroun] [yongeo]">>,
     <<"[giyeo] [yuhyeong]", "[yongeo]", "[chuga]">>,
     <<"[saeroun]", "[yongeo]", "[chuga]">>, <<"[yongeo]", "[deungnok]">>,
     <<"term", "addition">>, <<"new", "term">>}

ContributorPatterns ==
    {<<"[giyeoja]", "[chuga]">>, <<"contributor", "addition">>,
     <<"github", "[sayongjamyeong]">>, <<"[saeroun]", "[giyeoja]">>}

OrganizationPatterns ==
    {<<"[jojik]", "[chuga]">>, <<"organization", "addition">>, <<"[hoesa]", "[deungnok]">>,
     <<"[gigwan]", "[chuga]">>}

AdminPatterns ==
    {<<"[gwallija]", "[chuga]">>, <<"admin", "addition">>, <<"[gwonhan]", "[buyeo]">>}

AnyPattern(lines, patterns) == \E l \in lines : \E p \in patterns : InOrder(l, p)

AnyLiteral(lines, lits) == \E l \in lines : \E w \in lits : Has(l, w)

DetectIssueType(iss) ==
    LET content == ContentLines(iss)
        typed ==
            (IF AnyPattern(content, TermPatterns)
                   \/ \E l \in content : SearchMatch(l, Pat("neural", 0, "network"))
             THEN {"term-addition", "type:term-addition"} ELSE {})
            \cup (IF AnyPattern(content, ContributorPatterns)
                  THEN {"contributor-addition", "type:contributor-addition"} ELSE {})
            \cup (IF AnyPattern(content, OrganizationPatterns)
                  THEN {"organization-addition", "type:organization-addition"} ELSE {})
            \cup (IF AnyPattern(content, AdminPatterns)
                  THEN {"admin-addition", "type:admin-addition"} ELSE {})
    IN IF typed # {} THEN typed
       ELSE IF AnyLiteral(content, {"bug", "[oryu]", "error"}) THEN {"bug"}
       ELSE IF AnyLiteral(content, {"enhancement", "[gaeseon]", "[hyangsang]"})
            THEN {"enhancement"}
       ELSE IF AnyLiteral(content, {"feature", "[gineung]"}) THEN {"feature"}
       ELSE {"needs-triage"}

(***************************************************************************)
(* Platform calls.  ok says whether the call succeeded.                    *)
(***************************************************************************)
\* PUT /issues/{n}/labels: the labels replace those of the issue
SetLabels(current, new, ok) == IF ok THEN new ELSE current

\* POST /issues/{n}/labels: the labels are added to those of the issue
AddLabels(current, new, ok) == IF ok THEN current \cup new ELSE current

\* DELETE /issues/{n}/labels/{label}, once per label; failed are the labels whose
\* call failed
RemoveLabels(current, old, failed) == current \ (old \ failed)

Comment(author, body, missing, findings) ==
    [author |-> author, body |-> body, missing |-> missing, findings |-> findings]

\* POST /issues/{n}/comments
AddComment(history, comment, ok) == IF ok THEN Append(history, comment) ELSE history

\* the dispatch request is never sent
DispatchSkipped(count, ok) == count

\* POST /dispatches with event_type create_pr_from_issue
Dispatch(count, ok) == IF ok THEN count + 1 ELSE count

RECURSIVE SubsetsUpTo(_, _)
\* the subsets of S with at most k elements
SubsetsUpTo(S, k) ==
    IF k = 0 THEN {{}}
    ELSE LET smaller == SubsetsUpTo(S, k - 1)
         IN smaller \cup {T \cup {x} : T \in smaller, x \in S}

\* the calls and label removals that fail in one run: none while the platform is
\* healthy, at most MaxFaults of them while it is not
Faults(calls, removable) ==
    IF platformOK THEN {{}} ELSE SubsetsUpTo(calls \cup removable, MaxFaults)

\* the outcome of each call of a run with the faults F
Outcome(calls, F) == [c \in calls |-> c \notin F]

(***************************************************************************)
(* The handlers.  Each is split into what it reads and decides (findings,  *)
(* status) and what it then does to the platform state st = [labels,       *)
(* comments, dispatches], given the outcomes o of its calls and the label  *)
(* removals that failed.                                                   *)
(***************************************************************************)
PlatformState(ls, cs, d) == [labels |-> ls, comments |-> cs, dispatches |-> d]

LabelCalls == {"get", "add", "comment"}

\* IssueAutoLabeler.add_labels_to_issue: only the labels the issue lacks are posted
LabelerNewLabels(suggested, existing) == suggested \ existing

\* IssueAutoLabeler.process_issue, from the labels detect_issue_type suggested
ProcessIssue(st, suggested, o) ==
    LET existing == IF o["get"] THEN st.labels ELSE {}
        new_labels == LabelerNewLabels(suggested, existing)
        success == new_labels = {} \/ o["add"]
    IN IF ~success THEN st
       ELSE [st EXCEPT
               !.labels = IF new_labels = {} THEN @ ELSE AddLabels(@, new_labels, o["add"]),
               !.comments = IF "term-addition" \in suggested
                            THEN AddComment(@, Comment(Bot, "labeling:welcome", <<>>, <<>>),
                                            o["comment"])
                            ELSE @]

ValidateCalls == {"comment", "add", "suggest"}

\* enhanced validate_issue, steps 1 to 6: the findings of every check
EnhancedFindings(iss, fetched, terms) ==
    LET data == ParseEnhanced(iss)
    IN [missing_fields |-> ValidateRequiredFields(data),
        format_errors |-> ValidateFieldFormats(data),
        quality_errors |-> QualityErrors(data),
        improvements |-> Improvements(data),
        missing_agreements |-> ValidateRequiredCheckboxes(iss),
        duplicate_error |-> CheckDuplicateTermsEnhanced(data, fetched, terms)]

\* has_errors without the content-quality tier
HasErrorsQualityAdvisory(f) ==
    \/ f.missing_fields # <<>>
    \/ f.format_errors # <<>>
    \/ f.missing_agreements # <<>>
    \/ f.duplicate_error # None

\* enhanced validate_issue: has_errors
HasErrors(f) ==
    \/ f.missing_fields # <<>>
    \/ f.format_errors # <<>>
    \/ f.quality_errors # <<>>
    \/ f.missing_agreements # <<>>
    \/ f.duplicate_error # None

EnhancedSuccessLabels == {"auto-validated", "ready-for-review"}

EnhancedErrorLabels ==
    {"needs-more-info", "duplicate-found", "incomplete", "invalid-format",
     "needs-improvement"}

\* enhanced validate_issue: labels_to_add of a failed validation
EnhancedFailureLabels(f) ==
    {"needs-more-info"}
    \cup (IF f.duplicate_error # None THEN {"duplicate-found"} ELSE {})
    \cup (IF f.missing_fields # <<>> \/ f.missing_agreements # <<>>
          THEN {"incomplete"} ELSE {})
    \cup (IF f.format_errors # <<>> THEN {"invalid-format"} ELSE {})
    \cup (IF f.quality_errors # <<>> THEN {"needs-improvement"} ELSE {})

\* generate_completion_request_comment: every finding, section by section
CompletionRequestComment(f) ==
    Comment(Bot, "validation:completion-request", f.missing_fields,
            When(f.duplicate_error # None, f.duplicate_error)
            \o f.format_errors \o f.quality_errors \o f.missing_agreements)

\* enhanced validate_issue: the labels it removes
EnhancedLabelsToRemove(f) ==
    IF HasErrors(f) THEN EnhancedSuccessLabels ELSE EnhancedErrorLabels

\* enhanced TermIssueValidator.validate_issue, from the findings on
ValidateIssueEnhanced(st, f, o, failedRm) ==
    IF HasErrors(f)
    THEN [st EXCEPT
            !.comments = AddComment(@, CompletionRequestComment(f), o["comment"]),
            !.labels = RemoveLabels(AddLabels(@, EnhancedFailureLabels(f), o["add"]),
                                    EnhancedLabelsToRemove(f), failedRm)]
    ELSE [st EXCEPT
            !.labels = RemoveLabels(AddLabels(@, EnhancedSuccessLabels, o["add"]),
                                    EnhancedLabelsToRemove(f), failedRm),
            !.comments =
                AddComment(
                    IF f.improvements # <<>>
                    THEN AddComment(@, Comment(Bot, "validation:suggestions", <<>>,
                                               f.improvements), o["suggest"])
                    ELSE @,
                    Comment(Bot, "validation:success", <<>>, <<>>), o["comment"])]

\* basic validate_issue: the findings it computes, and the branch it takes
BasicFindings(iss, fetched, terms) ==
    LET fields == ParseBasic(iss)
        missing == ValidateRequiredFields(fields)
        issues == ValidateDataQuality(fields)
    IN [missing_fields |-> missing,
        data_issues |-> issues,
        is_duplicate |->
            /\ missing = <<>>
            /\ issues = <<>>
            /\ InData(fields, "term_english") /\ InData(fields, "term_korean")
            /\ CheckDuplicateTermsBasic(fields["term_english"], fields["term_korean"],
                                        fetched, terms)]

BasicSuccessLabels == {"auto-validated", "ready-for-review"}

\* basic validate_issue: the comment of the branch taken
BasicComment(f) ==
    IF f.missing_fields # <<>>
    THEN Comment(Bot, "validation:missing-fields", f.missing_fields, <<>>)
    ELSE IF f.data_issues # <<>>
    THEN Comment(Bot, "validation:data-quality", <<>>, f.data_issues)
    ELSE IF f.is_duplicate
    THEN Comment(Bot, "validation:duplicate", <<>>, <<"duplicate">>)
    ELSE Comment(Bot, "validation:success", <<>>, <<>>)

BasicLabelsToAdd(f) ==
    IF f.missing_fields # <<>> THEN {"needs-completion"}
    ELSE IF f.data_issues # <<>> THEN {"needs-improvement"}
    ELSE IF f.is_duplicate THEN {"duplicate-found"}
    ELSE BasicSuccessLabels

BasicLabelsToRemove(f) ==
    IF f.missing_fields # <<>> \/ f.data_issues # <<>> \/ f.is_duplicate
    THEN {"auto-validated", "ready-for-review"}
    ELSE {"needs-completion", "needs-improvement"}

\* basic TermIssueValidator.validate_issue, from the findings on
ValidateIssueBasic(st, f, o, failedRm) ==
    [st EXCEPT
       !.comments = AddComment(@, BasicComment(f), o["comment"]),
       !.labels = RemoveLabels(AddLabels(@, BasicLabelsToAdd(f), o["add"]),
                               BasicLabelsToRemove(f), failedRm)]

ApproveCalls == {"comment", "add", "dispatch"}

\* the labels process_approval_comment removes, by the status it found
ApprovalLabelsToRemove(status) ==
    IF status.error # None THEN {}
    ELSE IF status.approved THEN {"needs-changes"}
    ELSE IF Len(status.rejection_details) > 0 THEN {"approved"}
    ELSE {}

\* AdminApprovalChecker.process_approval_comment, from the status on
ProcessApprovalComment(st, status, o, failedRm) ==
    IF status.error # None THEN st
    ELSE IF status.approved
    THEN [st EXCEPT
            !.comments = AddComment(@, Comment(Bot, "approval:complete", <<>>,
                                               status.approval_details), o["comment"]),
            !.labels = RemoveLabels(AddLabels(@, {"approved"}, o["add"]),
                                    ApprovalLabelsToRemove(status), failedRm),
            !.dispatches = Dispatch(@, o["dispatch"])]
    ELSE IF Len(status.rejection_details) > 0
    THEN [st EXCEPT
            !.comments = AddComment(@, Comment(Bot, "approval:rejected", <<>>,
                                               status.rejection_details), o["comment"]),
            !.labels = RemoveLabels(AddLabels(@, {"needs-changes"}, o["add"]),
                                    ApprovalLabelsToRemove(status), failedRm)]
    ELSE [st EXCEPT
            !.comments = AddComment(@, Comment(Bot, "approval:pending", <<>>,
                                               status.approval_details), o["comment"])]

\* ApprovalChecker.count_approvals: the number of distinct approving admins
BasicCountApprovals(history) ==
    Cardinality({history[i].author : i \in
                    {j \in 1..Len(history) :
                        /\ BasicIsAdmin(history[j].author)
                        /\ BasicApproves(history[j].body)}})

BasicRequiredApprovals == 1

BasicApproveCalls == {"comment", "add", "dispatch", "rollback", "restore"}

\* ApprovalChecker.check_approval up to the label check: whether the run for the
\* comment (author, body) goes on to count approvals
BasicProceeds(author, body, issueFetched, issueLabels) ==
    /\ BasicIsAdmin(author)
    /\ BasicApproves(body)
    /\ issueFetched
    /\ "ready-for-review" \in issueLabels

\* ApprovalChecker.check_approval, from the approval count on
CheckApproval(st, total, o, failedRm) ==
    LET flipped == RemoveLabels(AddLabels(st.labels, {"approved"}, o["add"]),
                                {"ready-for-review"}, failedRm)
    IN IF total >= BasicRequiredApprovals
       THEN [st EXCEPT
               !.comments = AddComment(@, Comment(Bot, "approval:complete", <<>>, <<>>),
                                       o["comment"]),
               !.dispatches = Dispatch(@, o["dispatch"]),
               !.labels =
                   IF o["dispatch"] THEN flipped
                   ELSE AddLabels(RemoveLabels(flipped, {"approved"},
                                               IF o["rollback"] THEN {} ELSE {"approved"}),
                                  {"ready-for-review", "pr-creation-failed"},
                                  o["restore"])]
       ELSE IF total = 1
       THEN [st EXCEPT
               !.comments = AddComment(@, Comment(Bot, "approval:progress", <<>>, <<>>),
                                       o["comment"])]
       ELSE st

(***************************************************************************)
(* ReviewerAssigner (assign-reviewers-enhanced.py).  The admins.json it    *)
(* decodes keeps the order of the entries of its admins object: here       *)
(* admins is the sequence of those entries, each with the username it is   *)
(* keyed by.                                                               *)
(***************************************************************************)
Admin(username, role, specializations, active) ==
    [username |-> username, role |-> role, specializations |-> specializations,
     active |-> active]

\* the empty mapping {}
EmptyMapping == <<>>

\* `not admin_config`
IsEmptyMapping(cfg) == DOMAIN cfg = {}

\* ReviewerAssigner.load_admin_config: the decoded file, or {} when it is not served
AssignerLoadAdminConfig(fetched, file) == IF fetched THEN file ELSE EmptyMapping

\* extract_specialization_from_issue: the category line of the body looked up in
\* the specialization_mapping of the configuration
ExtractSpecialization(iss, cfg) ==
    IF iss.sections["category"] = "" THEN None
    ELSE LET category == Strip(iss.sections["category"])
         IN IF category \in DOMAIN cfg.specialization_mapping
            THEN cfg.specialization_mapping[category]
            ELSE None

\* get_eligible_reviewers: label_to_category
AssignerCategoryLabels == CategoryLabels \cup {"verification-org"}

\* get_eligible_reviewers: the first label of issue_labels that names a category;
\* every order of the labels is allowed for
AssignerCategories(issueLabels) ==
    IF issueLabels \cap AssignerCategoryLabels = {} THEN {None}
    ELSE issueLabels \cap AssignerCategoryLabels

\* process_reviewer_assignment: the category of the notice, the first label that
\* names one of the five categories of its own table, given the category
\* get_eligible_reviewers read from the same list
NoticeCategories(issueLabels, category) ==
    IF category \in CategoryLabels THEN {category}
    ELSE IF issueLabels \cap CategoryLabels = {} THEN {None}
    ELSE issueLabels \cap CategoryLabels

\* get_eligible_reviewers: approval_rules.get(category, {}) with its defaults
AssignerRuleFor(cfg, category) ==
    IF category \in DOMAIN cfg.approval_rules
    THEN cfg.approval_rules[category]
    ELSE Rule(1, {"reviewer"}, FALSE)

RECURSIVE EligibleFrom(_, _, _)
\* get_eligible_reviewers: the loop over the admins, in the order of the file
EligibleFrom(admins, rule, specialization) ==
    IF admins = <<>> THEN <<>>
    ELSE LET a == Head(admins)
             rest == EligibleFrom(Tail(admins), rule, specialization)
         IN IF ~a.active THEN rest
            ELSE IF a.role \notin rule.required_roles THEN rest
            ELSE IF /\ rule.specialization_match
                    /\ specialization # None
                    /\ specialization \notin a.specializations
                    /\ Wildcard \notin a.specializations
            THEN rest
            ELSE <<[username |-> a.username,
                    role |-> a.role,
                    specializations |-> a.specializations,
                    specialization_match |->
                        /\ specialization # None
                        /\ specialization \in a.specializations]>> \o rest

\* ReviewerAssigner.get_eligible_reviewers
GetEligibleReviewers(category, specialization, cfg) ==
    IF category = None THEN <<>>
    ELSE EligibleFrom(cfg.admins, AssignerRuleFor(cfg, category), specialization)

\* select_reviewers: role_priority.get(role, 0)
RolePriority(role) ==
    CASE role = "owner"      -> 3
      [] role = "maintainer" -> 2
      [] role = "reviewer"   -> 1
      [] OTHER               -> 0

RECURSIVE InsertByRole(_, _)
\* r placed behind every entry whose priority is not lower than its own
InsertByRole(sorted, r) ==
    IF sorted = <<>> THEN <<r>>
    ELSE IF RolePriority(Head(sorted).role) >= RolePriority(r.role)
    THEN <<Head(sorted)>> \o InsertByRole(Tail(sorted), r)
    ELSE <<r>> \o sorted

\* the candidates left in the order they came in
KeepOrder(rs) == rs

RECURSIVE SortByRole(_)
\* list.sort(key=role priority, reverse=True): descending priority, entries of
\* equal priority in the order they had
SortByRole(rs) ==
    IF rs = <<>> THEN <<>>
    ELSE InsertByRole(SortByRole(SubSeq(rs, 1, Len(rs) - 1)), rs[Len(rs)])

Min(a, b) == IF a <= b THEN a ELSE b

\* rs[:n] for n >= 0
Take(rs, n) == SubSeq(rs, 1, Min(n, Len(rs)))

Usernames(rs) == [i \in 1..Len(rs) |-> rs[i].username]

Without(rs, i) == SubSeq(rs, 1, i - 1) \o SubSeq(rs, i + 1, Len(rs))

RECURSIVE Samples(_, _)
\* random.sample(rs, k): every arrangement of k of the entries can come out
Samples(rs, k) ==
    IF k = 0 THEN {<<>>}
    ELSE UNION {{<<rs[i]>> \o s : s \in Samples(Without(rs, i), k - 1)} :
                   i \in 1..Len(rs)}

\* select_reviewers: the selection from a candidate list under the strategy
Pick(candidates, auto) ==
    IF auto.assignment_strategy = "random"
    THEN {Usernames(s) :
            s \in Samples(candidates, Min(auto.max_assignees, Len(candidates)))}
    ELSE {Usernames(Take(SortByRole(candidates), auto.max_assignees))}

\* select_reviewers returning every eligible reviewer
SelectEveryone(eligible, cfg, specialization) == {Usernames(eligible)}

\* select_reviewers without the specialization preference
SelectByRoleOnly(eligible, cfg, specialization) ==
    IF eligible = <<>> THEN {<<>>} ELSE Pick(eligible, cfg.auto_assignment)

\* ReviewerAssigner.select_reviewers: the lists of usernames it can return
SelectReviewers(eligible, cfg, specialization) ==
    LET auto == cfg.auto_assignment
        specialized == SelectSeq(eligible, LAMBDA r : r.specialization_match)
    IN IF eligible = <<>> THEN {<<>>}
       ELSE IF /\ auto.prefer_specialization
               /\ specialization # None
               /\ specialized # <<>>
       THEN Pick(specialized, auto)
       ELSE Pick(eligible, auto)

\* POST /issues/{n}/assignees
AssignReviewersToIssue(current, selected, ok) ==
    IF ok THEN current \cup {selected[i] : i \in 1..Len(selected)} ELSE current

\* the declared specializations of username: admins.get(username, {}) and then
\* .get('specializations', [])
DeclaredSpecializations(username, admins) ==
    UNION {admins[k].specializations :
              k \in {j \in 1..Len(admins) : admins[j].username = username}}

\* a marker for everyone has_specialization of the approval checker lets through
ExpertMarksWithWildcard(selected, admins, specialization) ==
    {selected[i] : i \in {j \in 1..Len(selected) :
        /\ specialization # None
        /\ \/ specialization \in DeclaredSpecializations(selected[j], admins)
           \/ Wildcard \in DeclaredSpecializations(selected[j], admins)}}

\* generate_assignment_comment: the reviewers whose line carries the expert marker
ExpertMarks(selected, admins, specialization) ==
    {selected[i] : i \in {j \in 1..Len(selected) :
        /\ specialization # None
        /\ specialization \in DeclaredSpecializations(selected[j], admins)}}

\* generate_assignment_comment
AssignmentComment(selected) == Comment(Bot, "assignment:notice", <<>>, selected)

AssignCalls == {"config", "issue", "assign", "comment"}

\* process_reviewer_assignment up to the selection: what the run loaded and found,
\* and the selections select_reviewers can return
AssignmentFindings(file, iss, category, o) ==
    LET cfg == AssignerLoadAdminConfig(o["config"], file)
    IN IF IsEmptyMapping(cfg)
       THEN [stage |-> "no-config", specialization |-> None, eligible |-> <<>>,
             choices |-> {<<>>}]
       ELSE IF ~o["issue"]
       THEN [stage |-> "no-issue", specialization |-> None, eligible |-> <<>>,
             choices |-> {<<>>}]
       ELSE LET specialization == ExtractSpecialization(iss, cfg)
                eligible == GetEligibleReviewers(category, specialization, cfg)
            IN [stage |-> "selected", specialization |-> specialization,
                eligible |-> eligible,
                choices |-> SelectReviewers(eligible, cfg, specialization)]

\* process_reviewer_assignment posting whatever was selected
ProcessReviewerAssignmentUnguarded(st, found, selected, noticeCategory, o) ==
    [assignees |-> AssignReviewersToIssue(st.assignees, selected, o["assign"]),
     comments |-> IF o["assign"]
                  THEN AddComment(st.comments, AssignmentComment(selected), o["comment"])
                  ELSE st.comments,
     success |-> o["assign"]]

\* ReviewerAssigner.process_reviewer_assignment from the selection on; st is the
\* issue's assignees and comments, success the value returned
ProcessReviewerAssignment(st, found, selected, noticeCategory, o) ==
    IF found.stage # "selected" \/ found.eligible = <<>> \/ selected = <<>>
    THEN [assignees |-> st.assignees, comments |-> st.comments, success |-> FALSE]
    ELSE [assignees |-> AssignReviewersToIssue(st.assignees, selected, o["assign"]),
          comments |-> IF o["assign"] /\ noticeCategory # None
                       THEN AddComment(st.comments, AssignmentComment(selected),
                                       o["comment"])
                       ELSE st.comments,
          success |-> o["assign"]]

(***************************************************************************)
(* Dataset writers: process-term-data.py, generate-term-data.py,           *)
(* process-contributor-data.py and process-organization-data.py.  A file   *)
(* is the sequence of its records; strings compare as Python compares      *)
(* them, character by character in code-point order.                       *)
(***************************************************************************)
\* the characters of the keys, in ascending code-point order
CodeOrder ==
    " #()+-.0123456789ABCDEFGHIJKLMNOPQRSTUVWXYZ_abcdefghijklmnopqrstuvwxyz{|}~"

Code(c) == CHOOSE i \in 1..Len(CodeOrder) : Char(CodeOrder, i) = c

RECURSIVE StrLess(_, _)
\* a < b on str
StrLess(a, b) ==
    IF b = "" THEN FALSE
    ELSE IF a = "" THEN TRUE
    ELSE IF Char(a, 1) = Char(b, 1) THEN StrLess(SubSeq(a, 2, Len(a)), SubSeq(b, 2, Len(b)))
    ELSE Code(Char(a, 1)) < Code(Char(b, 1))

\* the primary keys the writers meet
KeyTexts ==
    {"Tokenizer", "tokenizer", "Attention", "neural_network", "Neural Network",
     "neuralnet", "Zipf tokenizer", "octo-cat", "Octo-Cat", "alice", "bob", "ACME Labs",
     "acme labs", "Zeta Institute", "Korea Lab"}

\* key=lambda x: x[field].lower() and the comparison of two such keys, tabulated
KeyLess ==
    [a \in KeyTexts |-> [b \in KeyTexts |-> StrLess(Lower(a), Lower(b))]]

RECURSIVE InsertByKey(_, _, _)
\* r put into the sorted list after every record whose key is not greater
InsertByKey(sorted, r, field) ==
    IF sorted = <<>> THEN <<r>>
    ELSE IF KeyLess[r[field]][Head(sorted)[field]]
    THEN <<r>> \o sorted
    ELSE <<Head(sorted)>> \o InsertByKey(Tail(sorted), r, field)

\* the records as they are
KeepRecords(records, field) == records

RECURSIVE SortedByKey(_, _)
\* sorted(records, key=lambda x: x[field].lower()): ascending and stable
SortedByKey(records, field) ==
    IF records = <<>> THEN <<>>
    ELSE InsertByKey(SortedByKey(SubSeq(records, 1, Len(records) - 1), field),
                     records[Len(records)], field)

\* sort_terms_alphabetically, and the sort of TermDataGenerator.save_terms
SortTermsAlphabetically(terms) == SortedByKey(terms, "english")

\* term['english'].upper() and the comparison of two such keys, tabulated
UpperKeyLess ==
    [a \in KeyTexts |-> [b \in KeyTexts |-> StrLess(Upper(a), Upper(b))]]

RECURSIVE InsertByUpperKey(_, _)
InsertByUpperKey(sorted, english) ==
    IF sorted = <<>> THEN <<english>>
    ELSE IF UpperKeyLess[english][Head(sorted)]
    THEN <<english>> \o sorted
    ELSE <<Head(sorted)>> \o InsertByUpperKey(Tail(sorted), english)

RECURSIVE SortedUpper(_)
\* sorted(current_order), each key named by the term it is the upper case of
SortedUpper(order) ==
    IF order = <<>> THEN <<>>
    ELSE InsertByUpperKey(SortedUpper(SubSeq(order, 1, Len(order) - 1)),
                          order[Len(order)])

\* SortingValidator.validate_file_sorting on a terms array: the positions it
\* reports, the first one where current_order and expected_order differ
ValidateFileSorting(terms) ==
    LET current_order == [i \in 1..Len(terms) |-> terms[i].english]
        expected_order == SortedUpper(current_order)
        differing == {i \in 1..Len(terms) :
                         \/ UpperKeyLess[current_order[i]][expected_order[i]]
                         \/ UpperKeyLess[expected_order[i]][current_order[i]]}
    IN IF differing = {} THEN {}
       ELSE {CHOOSE i \in differing : \A j \in differing : i <= j}

\* the characters of r'^[A-Za-z0-9\s\-_()]+$', with the space for \s
AdmittedChars == UpperAlpha \o LowerAlpha \o "0123456789 -_()"

\* re.match(r'^[A-Za-z0-9\s\-_()]+$', term_english), tabulated
FormatAdmits ==
    [english \in KeyTexts |->
        /\ english # ""
        /\ \A i \in 1..Len(english) :
              \E k \in 1..Len(AdmittedChars) : Char(AdmittedChars, k) = Char(english, i)]

SortContributorsAlphabetically(cs) == SortedByKey(cs, "githubUsername")

SortOrganizationsAlphabetically(orgs) == SortedByKey(orgs, "name")

RECURSIVE MapChars(_, _, _)
\* the text with every character outside keep replaced by the text sub
MapChars(s, keep, sub) ==
    IF s = "" THEN ""
    ELSE (IF \E i \in 1..Len(keep) : Char(keep, i) = Char(s, 1) THEN Char(s, 1) ELSE sub)
         \o MapChars(SubSeq(s, 2, Len(s)), keep, sub)

RECURSIVE Squeeze(_)
\* re.sub(r'-+', '-', s)
Squeeze(s) ==
    IF Len(s) < 2 THEN s
    ELSE IF Char(s, 1) = "-" /\ Char(s, 2) = "-" THEN Squeeze(SubSeq(s, 2, Len(s)))
    ELSE Char(s, 1) \o Squeeze(SubSeq(s, 2, Len(s)))

RECURSIVE StripHyphens(_)
\* str.strip('-')
StripHyphens(s) ==
    IF s # "" /\ Char(s, 1) = "-" THEN StripHyphens(SubSeq(s, 2, Len(s)))
    ELSE IF s # "" /\ Char(s, Len(s)) = "-" THEN StripHyphens(SubSeq(s, 1, Len(s) - 1))
    ELSE s

\* process-term-data generate_term_id: lower-cased, spaces and underscores to
\* hyphens, every other character outside a-z, 0-9 and the hyphen dropped
GenerateTermIdOf(english) ==
    MapChars(MapChars(Lower(english), LowerAlpha \o Digits \o "-#()+.{|}~", "-"),
             LowerAlpha \o Digits \o "-", "")

\* TermDataGenerator.generate_term_id: lower-cased, every character outside the
\* letters and digits to a hyphen, runs of hyphens to one, no hyphen at either
\* end, then the millisecond count of the clock modulo 1000 in three digits
GeneratorTermIdOf(english, stamp) ==
    StripHyphens(Squeeze(MapChars(Lower(english), LowerAlpha \o UpperAlpha \o Digits, "-")))
    \o "-" \o stamp

\* the last three digits of the clock's millisecond count
Stamps == {"000", "001"}

\* both, tabulated over the English terms the writers meet
GenerateTermId ==
    [english \in KeyTexts |-> GenerateTermIdOf(english)]

GeneratorTermId ==
    [english \in KeyTexts |-> [stamp \in Stamps |-> GeneratorTermIdOf(english, stamp)]]

Term(id, english, korean) == [id |-> id, english |-> english, korean |-> korean]

\* find_existing_term / find_existing_contributor / find_existing_organization:
\* the index of the first record whose field has the value, 0 when there is none
FindExisting(records, field, value) ==
    IF \E i \in 1..Len(records) : records[i][field] = value
    THEN CHOOSE i \in 1..Len(records) :
            /\ records[i][field] = value
            /\ \A j \in 1..(i - 1) : records[j][field] # value
    ELSE 0

\* process-term-data main: the file it writes, or the file as it was when it
\* exits with an error
ProcessTermData(terms, data, action) ==
    LET term_id == IF data.id # "" THEN data.id ELSE GenerateTermId[data.english]
        at == FindExisting(terms, "id", term_id)
    IN IF action = "add"
       THEN IF at # 0 THEN terms
            ELSE SortTermsAlphabetically(
                     Append(terms, Term(term_id, data.english, data.korean)))
       ELSE IF at = 0 THEN terms
            ELSE SortTermsAlphabetically(
                     [terms EXCEPT ![at].english = data.english,
                                   ![at].korean = data.korean])

\* TermDataGenerator.generate_from_issue: the file it writes
GenerateFromIssue(terms, fields, stamp) ==
    SortTermsAlphabetically(
        Append(terms, Term(GeneratorTermId[fields.english][stamp], fields.english,
                           fields.korean)))

\* process-contributor-data main
ProcessContributorData(cs, data) ==
    LET at == FindExisting(cs, "githubUsername", data.githubUsername)
    IN IF data.githubUsername = "" THEN cs
       ELSE SortContributorsAlphabetically(
                IF at # 0
                THEN [cs EXCEPT ![at].name = IF data.name # "" THEN data.name ELSE @]
                ELSE Append(cs, [githubUsername |-> data.githubUsername,
                                 name |-> data.name]))

ValidTypes ==
    {"university", "company", "research_institute", "government", "non_profit",
     "organization"}

\* validate_organization_data
ValidateOrganizationData(data) ==
    /\ data.name # ""
    /\ data.type # ""
    /\ data.description # ""
    /\ data.type \in ValidTypes

\* process-organization-data main
ProcessOrganizationData(orgs, data) ==
    LET at == FindExisting(orgs, "name", data.name)
    IN IF data.name = "" \/ ~ValidateOrganizationData(data) THEN orgs
       ELSE SortOrganizationsAlphabetically(
                IF at # 0
                THEN [orgs EXCEPT ![at].description = data.description]
                ELSE Append(orgs, [name |-> data.name, type |-> data.type,
                                   description |-> data.description]))

(***************************************************************************)
(* Field extraction: extract-issue-data.py.  The preamble of a body is     *)
(* what parse_yaml_frontmatter finds between the --- lines and what        *)
(* yaml.safe_load makes of it; a YAML value is a record with its Python    *)
(* type and, for a str, its text.                                          *)
(***************************************************************************)
Str(text) == [type |-> "str", text |-> text]

YamlList == [type |-> "list", text |-> "[a, b]"]

YamlInt == [type |-> "int", text |-> "3"]

YamlNull == [type |-> "NoneType", text |-> ""]

\* bool(value) in Python
Truthy(v) ==
    CASE v.type = "str" -> v.text # ""
      [] v.type = "list" -> TRUE
      [] v.type = "int" -> v.text # "0"
      [] v.type = "dict" -> DOMAIN v.entries # {}
      [] OTHER -> FALSE

\* parse_yaml_frontmatter: the first value it returns.  A body without a preamble
\* and a preamble yaml.safe_load rejects both give None.
ParseYamlFrontmatter(preamble) ==
    IF preamble.type \in {"absent", "malformed"} THEN YamlNull ELSE preamble

\* yaml_data.get(key, ""): the value, or AttributeError when yaml_data has no get
Get(yaml_data, key) ==
    IF key \in DOMAIN yaml_data.entries THEN yaml_data.entries[key] ELSE Str("")

\* the keys whose value each extractor splits, always or when it is truthy
SplitAlways(kind) ==
    CASE kind = "term" -> {"alternative_terms", "related_terms"}
      [] kind = "contributor" -> {"expertise_areas"}
      [] kind = "organization" -> {"specialties"}
      [] OTHER -> {}

SplitIfTruthy(kind) == IF kind = "term" THEN {"examples", "references"} ELSE {}

\* the keys whose value each extractor copies as it is
Copied(kind) ==
    CASE kind = "term" -> {"term_id", "english_term", "korean_term", "category"}
      [] kind = "contributor" -> {"github_username", "full_name"}
      [] kind = "organization" -> {"organization_name", "organization_type",
                                   "description"}
      [] OTHER -> {}

\* main: the extractor the labels select
ExtractorFor(issueLabels) ==
    IF "type:term-addition" \in issueLabels \/ "type:term-modification" \in issueLabels
    THEN "term"
    ELSE IF "type:contributor-addition" \in issueLabels THEN "contributor"
    ELSE IF "type:organization-addition" \in issueLabels THEN "organization"
    ELSE "none"

\* whether extract_term_data, extract_contributor_data or extract_organization_data
\* raises AttributeError: yaml_data is truthy and has no get, or a value it splits
\* has no split
ExtractionRaises(yaml_data, kind) ==
    /\ kind # "none"
    /\ Truthy(yaml_data)
    /\ \/ yaml_data.type # "dict"
       \/ \E key \in SplitAlways(kind) : Get(yaml_data, key).type # "str"
       \/ \E key \in SplitIfTruthy(kind) :
             Truthy(Get(yaml_data, key)) /\ Get(yaml_data, key).type # "str"

NoIssueData == [state |-> "none", kind |-> "none", preamble |-> YamlNull, data |-> <<>>]

\* main, from the parsed preamble on: issue_data.json, or the exception that ends
\* the run before the file is written
ExtractIssueData(preamble, issueLabels) ==
    LET yaml_data == ParseYamlFrontmatter(preamble)
        kind == ExtractorFor(issueLabels)
    IN IF ExtractionRaises(yaml_data, kind)
       THEN [state |-> "raised", kind |-> kind, preamble |-> preamble, data |-> <<>>]
       ELSE [state |-> "written", kind |-> kind, preamble |-> preamble,
             data |-> IF kind # "none" /\ Truthy(yaml_data)
                      THEN [key \in Copied(kind) |-> Get(yaml_data, key)]
                      ELSE <<>>]

(***************************************************************************)
(* Inputs and bounds.                                                      *)
(***************************************************************************)
AllAgreed == {RequiredAgreements[i] : i \in 1..Len(RequiredAgreements)}

GoodSections ==
    [f \in FieldIds |->
        CASE f = "contribution_type"  -> "[saeroun] [yongeo] [chuga]"
          [] f = "term_english"       -> "Tokenizer"
          [] f = "term_korean"        -> "~{|}"
          [] f = "category"           -> "NLP (Natural Language Processing)"
          [] f = "definition_korean"  -> Text(120)
          [] f = "definition_english" -> Text(80)
          [] f = "usage_examples"     ->
                 KoreanMarker \o " a " \o EnglishMarker \o " b "
                 \o KoreanMarker \o " c " \o EnglishMarker \o " d"
          [] f = "references"         -> "https://arxiv.org/abs/1706.03762"
          [] f = "github_username"    -> "@octo-cat"
          [] f = "email"              -> ""]

GoodIssue ==
    [form |-> "term", title |-> "Tokenizer", sections |-> GoodSections,
     agreed |-> AllAgreed]

\* what a submitter may have written into a section instead
Alternatives(f) ==
    CASE f = "contribution_type"  -> {"", NoResponse}
      [] f = "term_english"       -> {"", "neural network", "C++",
                                      ExamplePrefix \o " Machine Learning"}
      [] f = "term_korean"        -> {"", "}", "{|}"}
      [] f = "category"           -> {"", "CV (Computer Vision)", "Robotics"}
      [] f = "definition_korean"  -> {"", Text(10), Text(40), Text(60)}
      [] f = "definition_english" -> {"", Text(10), Text(25), Text(40)}
      [] f = "usage_examples"     -> {"", KoreanMarker \o " a",
                                      KoreanMarker \o " a " \o EnglishMarker \o " b"}
      [] f = "references"         -> {"", "Attention Is All You Need (2017)",
                                      "https://example.com/tokenizer"}
      [] f = "github_username"    -> {"", "-octo", "octo-cat-"}
      [] f = "email"              -> {"octo@example.io", "octo-at-example"}

FieldSeq == RequiredFields \o <<"email">>

RECURSIVE Variants(_, _)
\* the section contents, in the order of fs, with at most k alternatives in them
Variants(fs, k) ==
    IF fs = <<>> THEN {<<>>}
    ELSE {<<GoodSections[Head(fs)]>> \o r : r \in Variants(Tail(fs), k)}
         \cup (IF k = 0 THEN {}
               ELSE {<<v>> \o r : v \in Alternatives(Head(fs)),
                                  r \in Variants(Tail(fs), k - 1)})

FieldIndex(f) == CHOOSE i \in 1..Len(FieldSeq) : FieldSeq[i] = f

AgreedChoices ==
    {AllAgreed, AllAgreed \ {"agree-community-guidelines"}, {}}

\* the issues with at most k defects (an agreement left unchecked is one defect)
IssuesWithin(k) ==
    UNION {
        {[GoodIssue EXCEPT !.sections = [f \in FieldIds |-> v[FieldIndex(f)]],
                           !.agreed = a] :
            v \in Variants(FieldSeq, IF a = AllAgreed THEN k ELSE k - 1)} :
        a \in {x \in AgreedChoices : x = AllAgreed \/ k > 0}}

\* terms-a-z.json snapshots: empty, one term, and two terms of which the second has
\* the English name of the good issue's term
Datasets ==
    {<<>>,
     <<[id |-> "neural-network", english |-> "Neural Network", korean |-> "{|}"]>>,
     <<[id |-> "neural-network", english |-> "Neural Network", korean |-> "{|}"],
       [id |-> "tokenizer", english |-> "Tokenizer", korean |-> "}{"]>>}

\* snapshots with an entry that has no Korean term: term.get('korean', '') is ''
SparseDatasets ==
    {<<[id |-> "softmax", english |-> "Softmax", korean |-> ""]>>,
     <<[id |-> "neural-network", english |-> "Neural Network", korean |-> "{|}"],
       [id |-> "softmax", english |-> "Softmax", korean |-> ""]>>}

\* the people who comment: the admins the deployed checker knows, and an outsider
Authors(approver) ==
    IF approver = "enhanced"
    THEN {"ai-expert-1", "nlp-specialist", "guest"}
    ELSE {"admin1", "admin2", "guest"}

\* the issues the approval specifications start from: a good one and one whose
\* Korean definition is too short for either validator
WorkflowIssues ==
    {GoodIssue, [GoodIssue EXCEPT !.sections["definition_korean"] = Text(10)]}

WorkflowDataset == <<>>

\* the scripts a repository runs: the basic pair or the enhanced pair
Deployments ==
    {[validator |-> "basic", approver |-> "basic"],
     [validator |-> "enhanced", approver |-> "enhanced"]}

\* an issue written without a form: a title over an empty body
FreeIssue(title) ==
    [form |-> "blank", title |-> title, sections |-> [f \in FieldIds |-> ""],
     agreed |-> {}]

\* the versions of an issue its author rewrites from one contribution type to
\* another
RewrittenIssues ==
    {FreeIssue("Organization addition: ACME Labs"),
     FreeIssue("Contributor addition: octo-cat"),
     FreeIssue("New term: Tokenizer"),
     FreeIssue("Search error on the terms page")}

\* every issue a specification submits
SubmittedIssues == IssuesWithin(MaxDefects) \cup WorkflowIssues \cup RewrittenIssues

\* detect_issue_type, the enhanced and the basic checks of validate_issue, tabulated
\* over the submitted issues (the handlers compute them from the issue alone)
DetectedType == [iss \in SubmittedIssues |-> DetectIssueType(iss)]

EnhancedFound ==
    [iss \in SubmittedIssues |->
        [fetched \in BOOLEAN |->
            [terms \in Datasets \cup SparseDatasets |->
                EnhancedFindings(iss, fetched, terms)]]]

BasicFound ==
    [iss \in SubmittedIssues |->
        [fetched \in BOOLEAN |->
            [terms \in Datasets \cup SparseDatasets |->
                BasicFindings(iss, fetched, terms)]]]

\* the entries admins.json can hold for the assigner: an owner, a maintainer, two
\* reviewers of which one covers every domain, and a maintainer no longer active
AdminPool ==
    <<Admin("ai-expert-1", "owner", {"ML", "DL", "NLP"}, TRUE),
      Admin("nlp-specialist", "maintainer", {"NLP", "GAI"}, TRUE),
      Admin("cv-researcher", "reviewer", {"CV", "DL"}, TRUE),
      Admin("generalist", "reviewer", {Wildcard}, TRUE),
      Admin("emeritus", "maintainer", {"NLP"}, FALSE)>>

\* every admins object of at most k entries, in every order
Rosters(k) == UNION {Samples(AdminPool, n) : n \in 0..k}

AssignerRules ==
    {Rule(1, AllRoles, TRUE), Rule(1, AllRoles, FALSE),
     Rule(2, {"maintainer", "owner"}, TRUE)}

SpecializationMapping ==
    [t \in {"NLP (Natural Language Processing)", "CV (Computer Vision)"} |->
        CategoryMapping(t)]

AssignmentStrategies == {"round_robin", "random"}

\* the admins.json documents the assignment specification runs with
AssignerConfigs ==
    {[admins |-> roster,
      approval_rules |-> [c \in {"term-addition"} |-> rule],
      specialization_mapping |-> SpecializationMapping,
      auto_assignment |-> [max_assignees |-> n, assignment_strategy |-> strategy,
                           prefer_specialization |-> prefer]] :
        roster \in Rosters(MaxRoster), rule \in AssignerRules, n \in 0..MaxAssignees,
        strategy \in AssignmentStrategies, prefer \in BOOLEAN}

\* an issue like the good one but for its category line
IssueOfCategory(text) == [GoodIssue EXCEPT !.sections["category"] = text]

\* what the assignment workflow is started with, the issue and the --issue-labels
\* it passes: a term issue of a mapped domain, of another mapped domain and of a
\* category the mapping does not list; an issue of a category only the assigner
\* knows; and an issue without a category label
AssignedCases ==
    {[issue |-> GoodIssue, labels |-> {"term-addition", "ready-for-review"}],
     [issue |-> IssueOfCategory("CV (Computer Vision)"),
      labels |-> {"term-addition", "ready-for-review"}],
     [issue |-> IssueOfCategory("Robotics"),
      labels |-> {"term-addition", "ready-for-review"}],
     [issue |-> GoodIssue, labels |-> {"verification-org", "ready-for-review"}],
     [issue |-> GoodIssue, labels |-> {"ready-for-review"}]}

(***************************************************************************)
(* Actions.                                                                *)
(***************************************************************************)
Here == PlatformState(labels, comments, dispatches)

\* the platform state becomes st, which must fit the bounds
Becomes(st) ==
    /\ Len(st.comments) <= MaxComments
    /\ st.dispatches <= MaxDispatches
    /\ labels' = st.labels
    /\ comments' = st.comments
    /\ dispatches' = st.dispatches

Reviews == {i \in 1..Len(comments) : comments[i].author # Bot}

\* a run of kind k has completed; it counts as a clean run on a healthy platform
Completed(k) == ran' = IF platformOK THEN ran \cup {k} ELSE ran

\* the labeling workflow runs (issue opened or edited)
LabelRun ==
    /\ \E F \in Faults(LabelCalls, {}) :
          Becomes(ProcessIssue(Here, DetectedType[issue], Outcome(LabelCalls, F)))
    /\ Completed("label")
    /\ UNCHANGED <<issue, dataset, adminsFile, platformOK, deploy, pending, procs>>
    /\ UNCHANGED avars
    /\ UNCHANGED dvars

ValidateReads == {"dataset"}

\* the validation workflow runs (issue opened or edited)
ValidateRun ==
    /\ \E F \in Faults(ValidateReads \cup ValidateCalls, labels) :
          LET o == Outcome(ValidateCalls, F)
              fetched == "dataset" \notin F
          IN IF deploy.validator = "enhanced"
             THEN Becomes(ValidateIssueEnhanced(Here, EnhancedFound[issue][fetched][dataset],
                                                o, F))
             ELSE Becomes(ValidateIssueBasic(Here, BasicFound[issue][fetched][dataset],
                                             o, F))
    /\ Completed("validate")
    /\ UNCHANGED <<issue, dataset, adminsFile, platformOK, deploy, pending, procs>>
    /\ UNCHANGED avars
    /\ UNCHANGED dvars

\* somebody comments on the issue; the comment event is queued for the approval
\* workflow
PostComment ==
    /\ Cardinality(Reviews) < MaxReviews
    /\ Len(comments) + Cardinality(pending) + 2 <= MaxComments
    /\ \E a \in Authors(deploy.approver) : \E t \in CommentTexts :
          comments' = Append(comments, Comment(a, t, <<>>, <<>>))
    /\ pending' = pending \cup {Len(comments) + 1}
    /\ ran' = {}
    /\ UNCHANGED <<issue, labels, dispatches, dataset, adminsFile, platformOK, deploy,
                   procs>>
    /\ UNCHANGED avars
    /\ UNCHANGED dvars

ApproveReads == {"config", "issue", "list"}

\* one run of the approval workflow for the event of comment i
ApprovalRunFor(i) ==
    /\ \E F \in Faults(ApproveReads \cup BasicApproveCalls, labels) :
          LET history == IF "list" \in F THEN <<>> ELSE comments
          IN IF deploy.approver = "enhanced"
             THEN \E category \in IssueCategories(labels) :
                     Becomes(ProcessApprovalComment(
                                 Here,
                                 CheckApprovalStatus(
                                     LoadAdminConfig("config" \notin F, adminsFile),
                                     "issue" \notin F, category, issue, history),
                                 Outcome(ApproveCalls, F), F))
             ELSE IF BasicProceeds(comments[i].author, comments[i].body, "issue" \notin F,
                                   labels)
             THEN Becomes(CheckApproval(Here, BasicCountApprovals(history),
                                        Outcome(BasicApproveCalls, F), F))
             ELSE Becomes(Here)
    /\ pending' = pending \ {i}
    /\ Completed("approve")
    /\ UNCHANGED <<issue, dataset, adminsFile, platformOK, deploy, procs>>
    /\ UNCHANGED avars
    /\ UNCHANGED dvars

\* the approval workflow runs for a comment event; the platform delivers an event
\* at least once, so a run may repeat for a comment already handled
ApprovalRun == \E i \in Reviews : ApprovalRunFor(i)

\* the approval workflow runs for a comment event not handled yet
DeliverRun == \E i \in pending : ApprovalRunFor(i)

\* the platform starts failing calls
Outage ==
    /\ platformOK
    /\ platformOK' = FALSE
    /\ ran' = {}
    /\ UNCHANGED <<issue, labels, comments, dispatches, dataset, adminsFile, deploy, pending,
                   procs>>
    /\ UNCHANGED avars
    /\ UNCHANGED dvars

\* the platform is healthy again
Recover ==
    /\ ~platformOK
    /\ platformOK' = TRUE
    /\ ran' = {}
    /\ UNCHANGED <<issue, labels, comments, dispatches, dataset, adminsFile, deploy, pending,
                   procs>>
    /\ UNCHANGED avars
    /\ UNCHANGED dvars

\* the report of an assignment run: what it loaded, found, selected and returned
NoAssignment ==
    [runs |-> 0, stage |-> "none", category |-> None, specialization |-> None,
     eligible |-> <<>>, selected |-> <<>>, alternatives |-> 0, success |-> FALSE,
     marked |-> {}]

\* the assignment workflow runs (the issue became ready for review)
AssignRun ==
    /\ assignment.runs < MaxAssignments
    /\ \E F \in Faults(AssignCalls, {}) : \E category \in AssignerCategories(labels) :
          LET o == Outcome(AssignCalls, F)
              found == AssignmentFindings(adminsFile, issue, category, o)
          IN \E selected \in found.choices :
             \E noticeCategory \in NoticeCategories(labels, category) :
                LET after == ProcessReviewerAssignment(
                                 [assignees |-> assignees, comments |-> comments],
                                 found, selected, noticeCategory, o)
                IN /\ Len(after.comments) <= MaxComments
                   /\ assignees' = after.assignees
                   /\ comments' = after.comments
                   /\ assignment' = [runs |-> assignment.runs + 1,
                                     stage |-> found.stage,
                                     category |-> category,
                                     specialization |-> found.specialization,
                                     eligible |-> Usernames(found.eligible),
                                     selected |-> selected,
                                     alternatives |-> Cardinality(found.choices),
                                     success |-> after.success,
                                     marked |->
                                         IF found.stage = "selected"
                                         THEN ExpertMarks(selected, adminsFile.admins,
                                                          found.specialization)
                                         ELSE {}]
    /\ Completed("assign")
    /\ UNCHANGED <<issue, labels, dispatches, dataset, adminsFile, platformOK, deploy,
                   pending, procs>>
    /\ UNCHANGED dvars

(***************************************************************************)
(* Specifications.                                                         *)
(***************************************************************************)
AllOk(calls) == [c \in calls |-> TRUE]

\* a newly opened issue after its labeling run and its validation run, both
\* with every platform call succeeding
Triaged(iss, validator, terms) ==
    LET labeled == ProcessIssue(PlatformState({}, <<>>, 0), DetectedType[iss],
                                AllOk(LabelCalls))
    IN IF validator = "enhanced"
       THEN ValidateIssueEnhanced(labeled, EnhancedFound[iss][TRUE][terms],
                                  AllOk(ValidateCalls), {})
       ELSE ValidateIssueBasic(labeled, BasicFound[iss][TRUE][terms],
                               AllOk(ValidateCalls), {})

\* review of a triaged issue: comments and approval runs
Init ==
    /\ issue \in WorkflowIssues
    /\ dataset = WorkflowDataset
    /\ adminsFile \in FileConfigs
    /\ deploy \in Deployments
    /\ labels = Triaged(issue, deploy.validator, dataset).labels
    /\ comments = Triaged(issue, deploy.validator, dataset).comments
    /\ dispatches = 0
    /\ platformOK = TRUE
    /\ pending = {}
    /\ ran = {}
    /\ procs = <<>>
    /\ assignees = {}
    /\ assignment = NoAssignment
    /\ contributors = <<>>
    /\ organizations = <<>>
    /\ issueData = NoIssueData
    /\ collaborators = <<>>

Next ==
    \/ PostComment
    \/ ApprovalRun
    \/ Outage
    \/ Recover

Spec == Init /\ [][Next]_vars

\* labeling and validation of every newly opened issue within the bounds
InitV ==
    /\ issue \in IssuesWithin(MaxDefects)
    /\ dataset \in Datasets
    /\ adminsFile = DefaultConfig
    /\ deploy \in Deployments
    /\ labels = {}
    /\ comments = <<>>
    /\ dispatches = 0
    /\ platformOK = TRUE
    /\ pending = {}
    /\ ran = {}
    /\ procs = <<>>
    /\ assignees = {}
    /\ assignment = NoAssignment
    /\ contributors = <<>>
    /\ organizations = <<>>
    /\ issueData = NoIssueData
    /\ collaborators = <<>>

NextV ==
    \/ LabelRun
    \/ ValidateRun
    \/ Outage
    \/ Recover

SpecV == InitV /\ [][NextV]_vars

(***************************************************************************)
(* Approval under a healthy platform with every comment event delivered     *)
(* once and every delivered run completing (specification SpecL).          *)
(***************************************************************************)
InitL == Init /\ deploy.approver = "enhanced"

NextL ==
    \/ PostComment
    \/ DeliverRun

SpecL == InitL /\ [][NextL]_vars /\ WF_vars(DeliverRun)

(***************************************************************************)
(* Approval runs one platform call at a time (specification SpecC).  A run *)
(* reads the issue, reads the comments, and then makes its writes in the   *)
(* order of the code; the calls of different runs interleave.  procs[r] is *)
(* run r: the comment event it handles, its position, the category it read *)
(* and the writes it has still to make.                                    *)
(***************************************************************************)
Write(op, ls, c) == [op |-> op, labels |-> ls, comment |-> c]

NoComment == Comment(Bot, "", <<>>, <<>>)

\* ApprovalChecker.check_approval after count_approvals: the calls it goes on to make
BasicPlan(total) ==
    IF total >= BasicRequiredApprovals
    THEN <<Write("add", {"approved"}, NoComment),
           Write("remove", {"ready-for-review"}, NoComment),
           Write("comment", {}, Comment(Bot, "approval:complete", <<>>, <<>>)),
           Write("dispatch", {}, NoComment)>>
    ELSE IF total = 1
    THEN <<Write("comment", {}, Comment(Bot, "approval:progress", <<>>, <<>>))>>
    ELSE <<>>

\* AdminApprovalChecker.process_approval_comment after check_approval_status: the
\* calls it goes on to make
EnhancedPlan(status) ==
    IF status.error # None THEN <<>>
    ELSE IF status.approved
    THEN <<Write("comment", {}, Comment(Bot, "approval:complete", <<>>,
                                        status.approval_details)),
           Write("add", {"approved"}, NoComment),
           Write("remove", {"needs-changes"}, NoComment),
           Write("dispatch", {}, NoComment)>>
    ELSE IF Len(status.rejection_details) > 0
    THEN <<Write("comment", {}, Comment(Bot, "approval:rejected", <<>>,
                                        status.rejection_details)),
           Write("add", {"needs-changes"}, NoComment),
           Write("remove", {"approved"}, NoComment)>>
    ELSE <<Write("comment", {}, Comment(Bot, "approval:pending", <<>>,
                                        status.approval_details))>>

\* the platform state after the call w
Apply(st, w) ==
    [st EXCEPT
       !.labels = IF w.op = "add" THEN AddLabels(@, w.labels, TRUE)
                  ELSE IF w.op = "remove" THEN RemoveLabels(@, w.labels, {})
                  ELSE @,
       !.comments = IF w.op = "comment" THEN AddComment(@, w.comment, TRUE) ELSE @,
       !.dispatches = IF w.op = "dispatch" THEN Dispatch(@, TRUE) ELSE @]

Runs == 1..Len(procs)

\* the workflow starts a run for a comment event (delivered at least once)
StartRun ==
    /\ Len(procs) < MaxRuns
    /\ \E i \in Reviews :
          /\ procs' = Append(procs, [event |-> i, pc |-> "issue", category |-> None,
                                     plan |-> <<>>])
          /\ pending' = pending \ {i}
    /\ UNCHANGED <<issue, labels, comments, dispatches, dataset, adminsFile, platformOK,
                   deploy, ran>>
    /\ UNCHANGED avars
    /\ UNCHANGED dvars

\* run r fetches the issue and looks at its labels
ReadIssue ==
    /\ \E r \in Runs :
          /\ procs[r].pc = "issue"
          /\ IF deploy.approver = "enhanced"
             THEN \E category \in IssueCategories(labels) :
                     procs' = [procs EXCEPT ![r].category = category,
                                            ![r].pc = IF category = None THEN "done"
                                                      ELSE "list"]
             ELSE procs' = [procs EXCEPT
                               ![r].pc =
                                   IF BasicProceeds(comments[procs[r].event].author,
                                                    comments[procs[r].event].body,
                                                    TRUE, labels)
                                   THEN "list" ELSE "done"]
    /\ UNCHANGED <<issue, labels, comments, dispatches, dataset, adminsFile, platformOK,
                   deploy, pending, ran>>
    /\ UNCHANGED avars
    /\ UNCHANGED dvars

\* run r fetches the comments and decides what to do
ReadComments ==
    /\ \E r \in Runs :
          /\ procs[r].pc = "list"
          /\ LET plan == IF deploy.approver = "enhanced"
                         THEN EnhancedPlan(
                                  CheckApprovalStatus(LoadAdminConfig(TRUE, adminsFile),
                                                      TRUE, procs[r].category, issue,
                                                      comments))
                         ELSE BasicPlan(BasicCountApprovals(comments))
             IN procs' = [procs EXCEPT ![r].plan = plan,
                                       ![r].pc = IF plan = <<>> THEN "done" ELSE "write"]
    /\ UNCHANGED <<issue, labels, comments, dispatches, dataset, adminsFile, platformOK,
                   deploy, pending, ran>>
    /\ UNCHANGED avars
    /\ UNCHANGED dvars

\* run r makes its next call
WriteCall ==
    /\ \E r \in Runs :
          /\ procs[r].pc = "write"
          /\ Becomes(Apply(Here, Head(procs[r].plan)))
          /\ procs' = [procs EXCEPT ![r].plan = Tail(@),
                                    ![r].pc = IF Len(procs[r].plan) = 1 THEN "done"
                                              ELSE "write"]
    /\ UNCHANGED <<issue, dataset, adminsFile, platformOK, deploy, pending, ran>>
    /\ UNCHANGED avars
    /\ UNCHANGED dvars

NextC ==
    \/ PostComment
    \/ StartRun
    \/ ReadIssue
    \/ ReadComments
    \/ WriteCall

SpecC == Init /\ [][NextC]_vars

(***************************************************************************)
(* Reviewer assignment of an issue that became ready for review            *)
(* (specification SpecA).                                                  *)
(***************************************************************************)
InitA ==
    /\ \E case \in AssignedCases : issue = case.issue /\ labels = case.labels
    /\ adminsFile \in AssignerConfigs
    /\ dataset = WorkflowDataset
    /\ deploy = [validator |-> "enhanced", approver |-> "enhanced"]
    /\ comments = <<>>
    /\ dispatches = 0
    /\ platformOK = TRUE
    /\ pending = {}
    /\ ran = {}
    /\ procs = <<>>
    /\ assignees = {}
    /\ assignment = NoAssignment
    /\ contributors = <<>>
    /\ organizations = <<>>
    /\ issueData = NoIssueData
    /\ collaborators = <<>>

NextA ==
    \/ AssignRun
    \/ Outage
    \/ Recover

SpecA == InitA /\ [][NextA]_vars

(***************************************************************************)
(* Approval under directories that shut a member out by role or by         *)
(* specialization (specification SpecS).                                   *)
(***************************************************************************)
\* admins.json in which nlp-specialist holds a role the rule does not accept
FileConfigRoles ==
    [admins |->
        [x \in {"ai-expert-1", "nlp-specialist"} |->
            CASE x = "ai-expert-1"    -> [role |-> "owner", specializations |-> {"NLP"}]
              [] x = "nlp-specialist" -> [role |-> "reviewer", specializations |-> {"NLP"}]],
     approval_rules |->
        [c \in {"term-addition"} |-> Rule(1, {"maintainer", "owner"}, TRUE)]]

\* admins.json in which ai-expert-1 lacks the issue's specialization and
\* nlp-specialist covers it by the wildcard
FileConfigDomains ==
    [admins |->
        [x \in {"ai-expert-1", "nlp-specialist"} |->
            CASE x = "ai-expert-1"    -> [role |-> "owner", specializations |-> {"CV"}]
              [] x = "nlp-specialist" -> [role |-> "maintainer",
                                          specializations |-> {Wildcard}]],
     approval_rules |->
        [c \in {"term-addition"} |-> Rule(1, AllRoles, TRUE)]]

InitS ==
    /\ issue = GoodIssue
    /\ dataset = WorkflowDataset
    /\ adminsFile \in {FileConfigRoles, FileConfigDomains}
    /\ deploy = [validator |-> "enhanced", approver |-> "enhanced"]
    /\ labels = Triaged(issue, deploy.validator, dataset).labels
    /\ comments = Triaged(issue, deploy.validator, dataset).comments
    /\ dispatches = 0
    /\ platformOK = TRUE
    /\ pending = {}
    /\ ran = {}
    /\ procs = <<>>
    /\ assignees = {}
    /\ assignment = NoAssignment
    /\ contributors = <<>>
    /\ organizations = <<>>
    /\ issueData = NoIssueData
    /\ collaborators = <<>>

SpecS == InitS /\ [][Next]_vars

(***************************************************************************)
(* Validation of an issue its submitter keeps editing (specification       *)
(* SpecE): every edit starts a validation run.                             *)
(***************************************************************************)
\* the versions of the issue the submitter moves between: the good one, one under
\* the English name of a term of the dataset, one with a short Korean definition,
\* one without a category and one with usage examples in Korean only
EditedIssues ==
    {GoodIssue,
     [GoodIssue EXCEPT !.sections["term_english"] = "neural network"],
     [GoodIssue EXCEPT !.sections["definition_korean"] = Text(10)],
     [GoodIssue EXCEPT !.sections["category"] = ""],
     [GoodIssue EXCEPT !.sections["usage_examples"] = KoreanMarker \o " a"]}

\* the submitter edits the issue
EditIssue ==
    /\ "validate" \in ran
    /\ \E iss \in EditedIssues \ {issue} : issue' = iss
    /\ ran' = {}
    /\ UNCHANGED <<labels, comments, dispatches, dataset, adminsFile, platformOK, deploy,
                   pending, procs>>
    /\ UNCHANGED avars
    /\ UNCHANGED dvars

InitE ==
    /\ issue \in EditedIssues
    /\ dataset \in {terms \in Datasets : Len(terms) = 1}
    /\ adminsFile = DefaultConfig
    /\ deploy \in Deployments
    /\ labels = {}
    /\ comments = <<>>
    /\ dispatches = 0
    /\ platformOK = TRUE
    /\ pending = {}
    /\ ran = {}
    /\ procs = <<>>
    /\ assignees = {}
    /\ assignment = NoAssignment
    /\ contributors = <<>>
    /\ organizations = <<>>
    /\ issueData = NoIssueData
    /\ collaborators = <<>>

NextE ==
    \/ EditIssue
    \/ ValidateRun

SpecE == InitE /\ [][NextE]_vars

(***************************************************************************)
(* Labeling of an issue its author keeps rewriting (specification SpecR):  *)
(* every edit starts a labeling run.                                       *)
(***************************************************************************)
\* the author rewrites the issue
RewriteIssue ==
    /\ "label" \in ran
    /\ \E iss \in RewrittenIssues \ {issue} : issue' = iss
    /\ ran' = {}
    /\ UNCHANGED <<labels, comments, dispatches, dataset, adminsFile, platformOK, deploy,
                   pending, procs>>
    /\ UNCHANGED avars
    /\ UNCHANGED dvars

InitR ==
    /\ issue \in RewrittenIssues
    /\ dataset = WorkflowDataset
    /\ adminsFile = DefaultConfig
    /\ deploy \in Deployments
    /\ labels = {}
    /\ comments = <<>>
    /\ dispatches = 0
    /\ platformOK = TRUE
    /\ pending = {}
    /\ ran = {}
    /\ procs = <<>>
    /\ assignees = {}
    /\ assignment = NoAssignment
    /\ contributors = <<>>
    /\ organizations = <<>>
    /\ issueData = NoIssueData
    /\ collaborators = <<>>

NextR ==
    \/ RewriteIssue
    \/ LabelRun
    \/ Outage
    \/ Recover

SpecR == InitR /\ [][NextR]_vars

(***************************************************************************)
(* Validation and approval runs one platform call at a time, each call     *)
(* succeeding or failing (specification SpecO).  A run is followed from    *)
(* its first call to its last; the issue may have been edited since the    *)
(* run that labelled it.                                                   *)
(***************************************************************************)
RECURSIVE RemovalCalls(_)
\* remove_labels: one DELETE per label, in the order of the list
RemovalCalls(ls) ==
    IF ls = <<>> THEN <<>>
    ELSE <<Write("remove", {Head(ls)}, NoComment)>> \o RemovalCalls(Tail(ls))

\* enhanced validate_issue after its checks: the calls it goes on to make
EnhancedValidationPlan(f) ==
    IF HasErrors(f)
    THEN <<Write("comment", {}, CompletionRequestComment(f)),
           Write("add", EnhancedFailureLabels(f), NoComment)>>
         \o RemovalCalls(<<"auto-validated", "ready-for-review">>)
    ELSE <<Write("add", EnhancedSuccessLabels, NoComment)>>
         \o RemovalCalls(<<"needs-more-info", "duplicate-found", "incomplete",
                           "invalid-format", "needs-improvement">>)
         \o When(f.improvements # <<>>,
                 Write("comment", {}, Comment(Bot, "validation:suggestions", <<>>,
                                              f.improvements)))
         \o <<Write("comment", {}, Comment(Bot, "validation:success", <<>>, <<>>))>>

\* basic validate_issue after its checks: the calls it goes on to make
BasicValidationPlan(f) ==
    <<Write("comment", {}, BasicComment(f)),
      Write("add", BasicLabelsToAdd(f), NoComment)>>
    \o RemovalCalls(IF f.missing_fields # <<>> \/ f.data_issues # <<>> \/ f.is_duplicate
                    THEN <<"auto-validated", "ready-for-review">>
                    ELSE <<"needs-completion", "needs-improvement">>)

\* ApprovalChecker.check_approval when trigger_auto_pr returned False
BasicRollbackPlan ==
    <<Write("remove", {"approved"}, NoComment),
      Write("add", {"ready-for-review", "pr-creation-failed"}, NoComment)>>

\* whether the validation of iss requests the dataset snapshot
FetchesDataset(validator, iss) ==
    IF validator = "enhanced" THEN InData(ParseEnhanced(iss), "term_english")
    ELSE LET f == BasicFound[iss][TRUE][<<>>]
         IN /\ f.missing_fields = <<>>
            /\ f.data_issues = <<>>
            /\ InData(ParseBasic(iss), "term_english")
            /\ InData(ParseBasic(iss), "term_korean")

Idle == \A r \in Runs : procs[r].pc = "done"

Run(kind, event, pc) ==
    [kind |-> kind, event |-> event, pc |-> pc, category |-> None, plan |-> <<>>,
     faults |-> 0, lost |-> FALSE, removed |-> FALSE, undelivered |-> FALSE]

\* the validation workflow starts (the issue was opened or edited)
BeginValidation ==
    /\ Len(procs) < MaxRuns
    /\ Idle
    /\ procs' = Append(procs, Run("validate", 0, "fetch"))
    /\ UNCHANGED <<issue, labels, comments, dispatches, dataset, adminsFile, platformOK,
                   deploy, pending, ran>>
    /\ UNCHANGED avars
    /\ UNCHANGED dvars

\* the validation run makes its checks, the request for the dataset snapshot among
\* them, and decides what to do
FetchDataset ==
    /\ \E r \in Runs :
          /\ procs[r].pc = "fetch"
          /\ \E fetched \in IF platformOK \/ ~FetchesDataset(deploy.validator, issue)
                            THEN {TRUE} ELSE BOOLEAN :
                procs' = [procs EXCEPT
                            ![r].plan =
                                IF deploy.validator = "enhanced"
                                THEN EnhancedValidationPlan(
                                         EnhancedFound[issue][fetched][dataset])
                                ELSE BasicValidationPlan(
                                         BasicFound[issue][fetched][dataset]),
                            ![r].faults = IF fetched THEN 0 ELSE 1,
                            ![r].pc = "write"]
    /\ UNCHANGED <<issue, labels, comments, dispatches, dataset, adminsFile, platformOK,
                   deploy, pending, ran>>
    /\ UNCHANGED avars
    /\ UNCHANGED dvars

\* the approval workflow starts for a comment event
BeginApproval ==
    /\ Len(procs) < MaxRuns
    /\ Idle
    /\ \E i \in Reviews :
          /\ procs' = Append(procs, Run("approve", i, "issue"))
          /\ pending' = pending \ {i}
    /\ UNCHANGED <<issue, labels, comments, dispatches, dataset, adminsFile, platformOK,
                   deploy, ran>>
    /\ UNCHANGED avars
    /\ UNCHANGED dvars

\* run r makes its next call and the call succeeds
MakeCall ==
    /\ \E r \in Runs :
          /\ procs[r].pc = "write"
          /\ Becomes(Apply(Here, Head(procs[r].plan)))
          /\ procs' = [procs EXCEPT
                         ![r].plan = Tail(@),
                         ![r].removed = @ \/ Head(procs[r].plan).op = "remove",
                         ![r].pc = IF Len(procs[r].plan) = 1 THEN "done" ELSE "write"]
    /\ UNCHANGED <<issue, dataset, adminsFile, platformOK, deploy, pending, ran>>
    /\ UNCHANGED avars
    /\ UNCHANGED dvars

\* run r makes its next call and the call fails: the helpers print the status and
\* return, and the run goes on; only a failed trigger changes what the basic
\* approval checker does next
FailCall ==
    /\ ~platformOK
    /\ \E r \in Runs :
          /\ procs[r].pc = "write"
          /\ procs[r].faults < MaxFaults
          /\ LET w == Head(procs[r].plan)
                 rest == IF /\ w.op = "dispatch"
                            /\ procs[r].kind = "approve"
                            /\ deploy.approver = "basic"
                         THEN BasicRollbackPlan
                         ELSE Tail(procs[r].plan)
             IN procs' = [procs EXCEPT
                            ![r].plan = rest,
                            ![r].faults = @ + 1,
                            ![r].lost = @ \/ w.op = "add",
                            ![r].undelivered = @ \/ w.op = "dispatch",
                            ![r].removed = @ \/ w.op = "remove",
                            ![r].pc = IF rest = <<>> THEN "done" ELSE "write"]
    /\ UNCHANGED <<issue, labels, comments, dispatches, dataset, adminsFile, platformOK,
                   deploy, pending, ran>>
    /\ UNCHANGED avars
    /\ UNCHANGED dvars

\* the issue was triaged as the good issue, against no dataset or against one that
\* holds its term, and may have been edited since
InitO ==
    /\ issue \in WorkflowIssues
    /\ dataset \in {terms \in Datasets : Len(terms) # 1}
    /\ adminsFile = DefaultConfig
    /\ deploy \in Deployments
    /\ labels = Triaged(GoodIssue, deploy.validator, dataset).labels
    /\ comments = Triaged(GoodIssue, deploy.validator, dataset).comments
    /\ dispatches = 0
    /\ platformOK = TRUE
    /\ pending = {}
    /\ ran = {}
    /\ procs = <<>>
    /\ assignees = {}
    /\ assignment = NoAssignment
    /\ contributors = <<>>
    /\ organizations = <<>>
    /\ issueData = NoIssueData
    /\ collaborators = <<>>

NextO ==
    \/ PostComment
    \/ BeginValidation
    \/ FetchDataset
    \/ BeginApproval
    \/ ReadIssue
    \/ ReadComments
    \/ MakeCall
    \/ FailCall
    \/ Outage
    \/ Recover

SpecO == InitO /\ [][NextO]_vars

(***************************************************************************)
(* The dataset files under their writers (specification SpecD): each step  *)
(* is one invocation of a writer on the data extracted from an issue.      *)
(***************************************************************************)
\* the terms the invocations carry: names that differ in case only, names with
\* an underscore or a space, and one that names the record to modify
TermData ==
    {[id |-> "", english |-> "Tokenizer", korean |-> "}{"],
     [id |-> "", english |-> "tokenizer", korean |-> "}{"],
     [id |-> "", english |-> "Attention", korean |-> "~|"],
     [id |-> "", english |-> "neural_network", korean |-> "{|}"],
     [id |-> "", english |-> "neuralnet", korean |-> "{|}"],
     [id |-> "tokenizer", english |-> "Zipf tokenizer", korean |-> "}{"]}

\* the terms generate-term-data.py is run for
GeneratedTerms == {d \in TermData : d.english \in {"Tokenizer", "neural_network"}}

ContributorData ==
    {[githubUsername |-> "octo-cat", name |-> ""],
     [githubUsername |-> "octo-cat", name |-> "A. Name"],
     [githubUsername |-> "Octo-Cat", name |-> ""],
     [githubUsername |-> "alice", name |-> ""],
     [githubUsername |-> "", name |-> "A. Name"]}

OrganizationData ==
    {[name |-> "ACME Labs", type |-> "company", description |-> "a lab"],
     [name |-> "ACME Labs", type |-> "company", description |-> "a company"],
     [name |-> "acme labs", type |-> "company", description |-> "a lab"],
     [name |-> "Zeta Institute", type |-> "guild", description |-> "a lab"],
     [name |-> "", type |-> "company", description |-> "a lab"]}

\* process-term-data.py runs
ProcessTermRun ==
    /\ \E data \in TermData : \E action \in {"add", "modify"} :
          /\ dataset' = ProcessTermData(dataset, data, action)
          /\ Len(dataset') <= MaxRecords
    /\ UNCHANGED <<issue, labels, comments, dispatches, adminsFile, platformOK, deploy,
                   pending, ran, procs>>
    /\ UNCHANGED avars
    /\ UNCHANGED dvars

\* generate-term-data.py runs
GenerateTermRun ==
    /\ \E fields \in GeneratedTerms : \E stamp \in Stamps :
          /\ dataset' = GenerateFromIssue(dataset, fields, stamp)
          /\ Len(dataset') <= MaxRecords
    /\ UNCHANGED <<issue, labels, comments, dispatches, adminsFile, platformOK, deploy,
                   pending, ran, procs>>
    /\ UNCHANGED avars
    /\ UNCHANGED dvars

\* process-contributor-data.py runs
ProcessContributorRun ==
    /\ \E data \in ContributorData :
          /\ contributors' = ProcessContributorData(contributors, data)
          /\ Len(contributors') <= MaxRecords
    /\ UNCHANGED <<issue, labels, comments, dispatches, dataset, adminsFile, platformOK,
                   deploy, pending, ran, procs, organizations, issueData,
                   collaborators>>
    /\ UNCHANGED avars

\* process-organization-data.py runs
ProcessOrganizationRun ==
    /\ \E data \in OrganizationData :
          /\ organizations' = ProcessOrganizationData(organizations, data)
          /\ Len(organizations') <= MaxRecords
    /\ UNCHANGED <<issue, labels, comments, dispatches, dataset, adminsFile, platformOK,
                   deploy, pending, ran, procs, contributors, issueData,
                   collaborators>>
    /\ UNCHANGED avars

\* the terms file of two records
Datasets2 == CHOOSE terms \in Datasets : Len(terms) = 2

\* the files start empty or hold sorted records with distinct identifiers
InitD ==
    /\ issue = GoodIssue
    /\ \E seeded \in BOOLEAN :
          /\ dataset = IF seeded THEN Datasets2 ELSE <<>>
          /\ contributors =
                 IF seeded THEN <<[githubUsername |-> "bob", name |-> "Bob"]>> ELSE <<>>
          /\ organizations =
                 IF seeded THEN <<[name |-> "Korea Lab", type |-> "university",
                                   description |-> "a lab"]>>
                 ELSE <<>>
    /\ issueData = NoIssueData
    /\ collaborators = <<>>
    /\ adminsFile = DefaultConfig
    /\ deploy = [validator |-> "enhanced", approver |-> "enhanced"]
    /\ labels = {}
    /\ comments = <<>>
    /\ dispatches = 0
    /\ platformOK = TRUE
    /\ pending = {}
    /\ ran = {}
    /\ procs = <<>>
    /\ assignees = {}
    /\ assignment = NoAssignment

NextD ==
    \/ ProcessTermRun
    \/ GenerateTermRun
    \/ ProcessContributorRun
    \/ ProcessOrganizationRun

SpecD == InitD /\ [][NextD]_vars

\* C39: every terms array the writers produce from English terms the format
\* check admits is accepted by SortingValidator.validate_file_sorting: the
\* order by english.lower() is also an order by english.upper().
C39_WriterAcceptedByChecker ==
    (\A i \in 1..Len(dataset) : FormatAdmits[dataset[i].english])
        => ValidateFileSorting(dataset) = {}

(***************************************************************************)
(* Extraction runs on the bodies of labelled issues (specification SpecX). *)
(***************************************************************************)
Dict(entries) == [type |-> "dict", text |-> "", entries |-> entries]

\* a well-formed preamble of a term, a contributor and an organization issue
GoodEntries ==
    [key \in {"term_id", "english_term", "korean_term", "category",
              "alternative_terms", "related_terms", "examples", "references",
              "github_username", "full_name", "expertise_areas",
              "organization_name", "organization_type", "description",
              "specialties"} |->
        CASE key = "english_term" -> Str("Tokenizer")
          [] key = "korean_term" -> Str("}{")
          [] key = "github_username" -> Str("octo-cat")
          [] key = "organization_name" -> Str("ACME Labs")
          [] key = "organization_type" -> Str("company")
          [] key = "description" -> Str("a lab")
          [] OTHER -> Str("")]

\* the preambles: none, one that is not YAML, YAML that is not a mapping, the
\* empty mapping, the good mapping, and the good mapping with one entry that is
\* not a string
Preambles ==
    {[type |-> "absent", text |-> ""], [type |-> "malformed", text |-> "a: [b"],
     Str("just a sentence"), Str(""), YamlList, YamlInt, YamlNull,
     Dict(<<>>), Dict(GoodEntries)}
    \cup {Dict([GoodEntries EXCEPT ![key] = v]) :
             key \in DOMAIN GoodEntries, v \in {YamlList, YamlInt, YamlNull}}

ExtractedLabels ==
    {{"type:term-addition"}, {"type:term-modification"}, {"type:contributor-addition"},
     {"type:organization-addition"}, {"bug"}}

\* extract-issue-data.py runs on an issue
ExtractRun ==
    /\ \E preamble \in Preambles : \E issueLabels \in ExtractedLabels :
          /\ labels' = issueLabels
          /\ issueData' = ExtractIssueData(preamble, issueLabels)
    /\ UNCHANGED <<issue, comments, dispatches, dataset, adminsFile, platformOK, deploy,
                   pending, ran, procs, contributors, organizations, collaborators>>
    /\ UNCHANGED avars

InitX ==
    /\ issue = GoodIssue
    /\ dataset = WorkflowDataset
    /\ adminsFile = DefaultConfig
    /\ deploy = [validator |-> "enhanced", approver |-> "enhanced"]
    /\ labels = {}
    /\ comments = <<>>
    /\ dispatches = 0
    /\ platformOK = TRUE
    /\ pending = {}
    /\ ran = {}
    /\ procs = <<>>
    /\ assignees = {}
    /\ assignment = NoAssignment
    /\ contributors = <<>>
    /\ organizations = <<>>
    /\ issueData = NoIssueData
    /\ collaborators = <<>>

NextX == ExtractRun

SpecX == InitX /\ [][NextX]_vars

(***************************************************************************)
(* Evaluation of a comment history delivered in any order (specification   *)
(* SpecP).  The history is drawn from the comments reviewers can write; a  *)
(* run receives it in some order and decides what to do.                   *)
(***************************************************************************)
MaxDelivered == 3    \* length of a history delivered in any order

ReviewComments(approver) ==
    {Comment(a, t, <<>>, <<>>) : a \in Authors(approver), t \in CommentTexts}

Histories(approver) ==
    UNION {[1..n -> ReviewComments(approver)] : n \in 0..MaxDelivered}

\* the comment history delivered in the order p, a permutation of its positions
Delivered(p) == [i \in 1..Len(comments) |-> comments[p[i]]]

\* a run receives the history in the order p and decides on its calls
EvaluateRun ==
    /\ procs = <<>>
    /\ \E p \in Permutations(1..Len(comments)) :
          IF deploy.approver = "enhanced"
          THEN \E category \in IssueCategories(labels) :
                  procs' = <<[event |-> 0, pc |-> "done", category |-> category,
                              order |-> p,
                              plan |-> EnhancedPlan(
                                           CheckApprovalStatus(
                                               LoadAdminConfig(TRUE, adminsFile), TRUE,
                                               category, issue, Delivered(p)))]>>
          ELSE procs' = <<[event |-> 0, pc |-> "done", category |-> None,
                           order |-> p,
                           plan |-> BasicPlan(BasicCountApprovals(Delivered(p)))]>>
    /\ UNCHANGED <<issue, labels, comments, dispatches, dataset, adminsFile, platformOK,
                   deploy, pending, ran>>
    /\ UNCHANGED avars
    /\ UNCHANGED dvars

InitP ==
    /\ issue = GoodIssue
    /\ dataset = WorkflowDataset
    /\ adminsFile \in FileConfigs
    /\ deploy \in Deployments
    /\ labels = Triaged(issue, deploy.validator, dataset).labels
    /\ comments \in Histories(deploy.approver)
    /\ dispatches = 0
    /\ platformOK = TRUE
    /\ pending = {}
    /\ ran = {}
    /\ procs = <<>>
    /\ assignees = {}
    /\ assignment = NoAssignment
    /\ contributors = <<>>
    /\ organizations = <<>>
    /\ issueData = NoIssueData
    /\ collaborators = <<>>

NextP == EvaluateRun

SpecP == InitP /\ [][NextP]_vars

(***************************************************************************)
(* Approval runs on the comments of the authors' test (specification       *)
(* SpecT).                                                                 *)
(***************************************************************************)
MaxTested == 1       \* comments of the authors' test posted on one issue

\* a reviewer posts one of the test's comments
PostTestComment ==
    /\ Cardinality(Reviews) < MaxTested
    /\ \E a \in Authors(deploy.approver) : \E t \in TestTexts :
          comments' = Append(comments, Comment(a, t, <<>>, <<>>))
    /\ pending' = pending \cup {Len(comments) + 1}
    /\ ran' = {}
    /\ UNCHANGED <<issue, labels, dispatches, dataset, adminsFile, platformOK, deploy,
                   procs>>
    /\ UNCHANGED avars
    /\ UNCHANGED dvars

InitT ==
    /\ issue = GoodIssue
    /\ dataset = WorkflowDataset
    /\ adminsFile = DefaultConfig
    /\ deploy \in Deployments
    /\ labels = Triaged(issue, deploy.validator, dataset).labels
    /\ comments = Triaged(issue, deploy.validator, dataset).comments
    /\ dispatches = 0
    /\ platformOK = TRUE
    /\ pending = {}
    /\ ran = {}
    /\ procs = <<>>
    /\ assignees = {}
    /\ assignment = NoAssignment
    /\ contributors = <<>>
    /\ organizations = <<>>
    /\ issueData = NoIssueData
    /\ collaborators = <<>>

NextT ==
    \/ PostTestComment
    \/ ApprovalRun

SpecT == InitT /\ [][NextT]_vars

(***************************************************************************)
(* Loading of the reviewer roster in a repository with collaborators       *)
(* (specification SpecW): the collaborators of test_admin_config_loading   *)
(* with every permission level, and admins.json files that list some of    *)
(* them.                                                                   *)
(***************************************************************************)
PermissionLevels == {"admin", "maintain", "push"}

\* mock_collaborators: admin1 (admin), maintainer1 (maintain), contributor1 (push)
TestCollaborators == {"admin1", "maintainer1", "contributor1"}

\* the entries an admins.json can hold for the test's collaborators
TestPool ==
    <<Admin("admin1", "owner", {"ML", Wildcard}, TRUE),
      Admin("maintainer1", "maintainer", {"NLP"}, TRUE),
      Admin("contributor1", "reviewer", {"NLP"}, TRUE)>>

\* the admins.json documents: mock_config (admin1 alone) among them
TestConfigs ==
    {[admins |-> roster,
      approval_rules |-> [c \in {"term-addition"} |-> Rule(1, AllRoles, FALSE)],
      specialization_mapping |-> SpecializationMapping,
      auto_assignment |-> [max_assignees |-> MaxAssignees,
                           assignment_strategy |-> "round_robin",
                           prefer_specialization |-> FALSE]] :
        roster \in UNION {Samples(TestPool, n) : n \in 0..Len(TestPool)}}

InitW ==
    /\ issue = GoodIssue
    /\ labels = {"term-addition", "ready-for-review"}
    /\ adminsFile \in TestConfigs
    /\ collaborators \in [TestCollaborators -> PermissionLevels]
    /\ dataset = WorkflowDataset
    /\ deploy = [validator |-> "enhanced", approver |-> "enhanced"]
    /\ comments = <<>>
    /\ dispatches = 0
    /\ platformOK \in BOOLEAN
    /\ pending = {}
    /\ ran = {}
    /\ procs = <<>>
    /\ assignees = {}
    /\ assignment = NoAssignment
    /\ contributors = <<>>
    /\ organizations = <<>>
    /\ issueData = NoIssueData

NextW == AssignRun

SpecW == InitW /\ [][NextW]_vars

(***************************************************************************)
(* Edits and comments on one issue (specification SpecI): every edit       *)
(* starts a validation run, every comment an approval run, in any order.   *)
(***************************************************************************)
\* the submitter edits the issue, whatever has run before
EditAnytime ==
    /\ \E iss \in EditedIssues \ {issue} : issue' = iss
    /\ ran' = {}
    /\ UNCHANGED <<labels, comments, dispatches, dataset, adminsFile, platformOK, deploy,
                   pending, procs>>
    /\ UNCHANGED avars
    /\ UNCHANGED dvars

\* the good issue after its labeling and validation
InitI ==
    /\ issue = GoodIssue
    /\ dataset = WorkflowDataset
    /\ adminsFile = DefaultConfig
    /\ deploy \in Deployments
    /\ labels = Triaged(issue, deploy.validator, dataset).labels
    /\ comments = Triaged(issue, deploy.validator, dataset).comments
    /\ dispatches = 0
    /\ platformOK = TRUE
    /\ pending = {}
    /\ ran = {}
    /\ procs = <<>>
    /\ assignees = {}
    /\ assignment = NoAssignment
    /\ contributors = <<>>
    /\ organizations = <<>>
    /\ issueData = NoIssueData
    /\ collaborators = <<>>

NextI ==
    \/ EditAnytime
    \/ ValidateRun
    \/ PostComment
    \/ ApprovalRun

SpecI == InitI /\ [][NextI]_vars

(***************************************************************************)
(* Reviewers following the assignment comment (specification SpecJ).       *)
(***************************************************************************)
\* a reviewer posts one of the phrases the assignment comment asks for
PostInstructedComment ==
    /\ Cardinality(Reviews) < MaxTested
    /\ \E a \in Authors(deploy.approver) :
       \E t \in InstructedApprovals \cup InstructedChangeRequests :
          comments' = Append(comments, Comment(a, t, <<>>, <<>>))
    /\ pending' = pending \cup {Len(comments) + 1}
    /\ ran' = {}
    /\ UNCHANGED <<issue, labels, dispatches, dataset, adminsFile, platformOK, deploy,
                   procs>>
    /\ UNCHANGED avars
    /\ UNCHANGED dvars

NextJ ==
    \/ PostInstructedComment
    \/ ApprovalRun

SpecJ == InitT /\ [][NextJ]_vars

(***************************************************************************)
(* Validation against a snapshot with incomplete entries (specification    *)
(* SpecK).                                                                 *)
(***************************************************************************)
InitK ==
    /\ issue \in IssuesWithin(MaxDefects)
    /\ dataset \in SparseDatasets
    /\ adminsFile = DefaultConfig
    /\ deploy \in Deployments
    /\ labels = {}
    /\ comments = <<>>
    /\ dispatches = 0
    /\ platformOK = TRUE
    /\ pending = {}
    /\ ran = {}
    /\ procs = <<>>
    /\ assignees = {}
    /\ assignment = NoAssignment
    /\ contributors = <<>>
    /\ organizations = <<>>
    /\ issueData = NoIssueData
    /\ collaborators = <<>>

SpecK == InitK /\ [][NextV]_vars

(***************************************************************************)
(* Properties of the approval aggregator (specification Spec).             *)
(***************************************************************************)
\* the configurations an approval run can load: the file, or the default
LoadableConfigs == {LoadAdminConfig(ok, adminsFile) : ok \in BOOLEAN}

\* check_approval_status on the current issue and comment history
StatusNow(cfg, category) == CheckApprovalStatus(cfg, TRUE, category, issue, comments)

\* comment c is by a reviewer the rule of the category admits
ByEligible(c, cfg, category) ==
    Eligible(c.author, cfg, RuleFor(cfg, category), GetIssueSpecialization(issue))

QualifyingApproval(c, cfg, category) ==
    ByEligible(c, cfg, category) /\ Approves(c.body)

QualifyingRejection(c, cfg, category) ==
    ByEligible(c, cfg, category) /\ Rejects(c.body)

Vetoed(cfg, category) ==
    \E i \in 1..Len(comments) : QualifyingRejection(comments[i], cfg, category)

\* the distinct reviewers with a qualifying approval in the history
ApprovingReviewers(cfg, category) ==
    {comments[i].author : i \in {j \in 1..Len(comments) :
                                    QualifyingApproval(comments[j], cfg, category)}}

LastComment == comments[Len(comments)]

\* one category for each distinct rule: the rules the configurations list, and a
\* category they leave to the fallback rule
RuleCategories == {"term-addition", "contributor-addition", "organization-addition"}

VetoHolds ==
    \A cfg \in LoadableConfigs : \A category \in RuleCategories :
        Vetoed(cfg, category) => ~StatusNow(cfg, category).approved

\* the history after a step is the history before it, possibly with comments added
OnlyAppended ==
    /\ Len(comments') >= Len(comments)
    /\ SubSeq(comments', 1, Len(comments)) = comments

C2_OneVotePerIdentity ==
    \A cfg \in LoadableConfigs : \A category \in RuleCategories :
        StatusNow(cfg, category).approved
            => Cardinality(ApprovingReviewers(cfg, category))
                  >= StatusNow(cfg, category).min_approvals

(***************************************************************************)
(* Properties of the approval transition (specification Spec).             *)
(***************************************************************************)
ApprovedAdded == "approved" \notin labels /\ "approved" \in labels'

TriggerEmitted == dispatches' > dispatches

\* C5: a step adds the approved label or emits the merge trigger only if the issue
\* carries ready-for-review when the step starts, whichever checker is deployed.
C5_ApprovedOnlyFromValidated ==
    [][(ApprovedAdded \/ TriggerEmitted) => "ready-for-review" \in labels]_vars

\* an approval run on a healthy platform found quorum: it posted the completion notice
QuorumReported ==
    /\ platformOK
    /\ Len(comments') = Len(comments) + 1
    /\ comments'[Len(comments')].author = Bot
    /\ comments'[Len(comments')].body = "approval:complete"

\* C6: an approval run that reports quorum ends with approved present, with
\* ready-for-review absent and with the merge trigger emitted; and on a healthy
\* platform the merge trigger is emitted only by a run that reports quorum.
C6_QuorumTransition ==
    [][/\ QuorumReported => /\ "approved" \in labels'
                            /\ "ready-for-review" \notin labels'
                            /\ dispatches' = dispatches + 1
       /\ (platformOK /\ TriggerEmitted) => QuorumReported]_vars

(***************************************************************************)
(* Properties of validation and labeling (specification SpecV).            *)
(***************************************************************************)
\* a step in which a validation run completes with every platform call succeeding,
\* the first such run since the platform was last seen to change its health
ValidationCompleted == "validate" \notin ran /\ "validate" \in ran'

\* the findings of the enhanced checks on the current issue and dataset
FoundNow == EnhancedFound[issue][TRUE][dataset]

\* no finding of the four blocking tiers and of the content-quality tier
NoBlockingFinding ==
    /\ FoundNow.missing_fields = <<>>
    /\ FoundNow.format_errors = <<>>
    /\ FoundNow.quality_errors = <<>>
    /\ FoundNow.missing_agreements = <<>>
    /\ FoundNow.duplicate_error = None

\* no finding of the four blocking tiers the specification lists
NoListedFinding ==
    /\ FoundNow.missing_fields = <<>>
    /\ FoundNow.format_errors = <<>>
    /\ FoundNow.missing_agreements = <<>>
    /\ FoundNow.duplicate_error = None

BasicChecks ==
    [iss \in SubmittedIssues |->
        [terms \in Datasets |->
            LET fields == ParseBasic(iss)
            IN [missing_fields |-> ValidateRequiredFields(fields),
                data_issues |-> ValidateDataQuality(fields),
                is_duplicate |->
                    /\ InData(fields, "term_english")
                    /\ InData(fields, "term_korean")
                    /\ CheckDuplicateTermsBasic(fields["term_english"],
                                                fields["term_korean"], TRUE, terms)]]]

\* the first comment the step posted
FirstNotice == comments'[Len(comments) + 1]

Reports(c, finding) == \E k \in 1..Len(c.findings) : c.findings[k] = finding

Elements(seq) == {seq[k] : k \in 1..Len(seq)}

EnhancedReportsAll ==
    HasErrors(FoundNow)
        => /\ Len(comments') > Len(comments)
           /\ FirstNotice.missing = FoundNow.missing_fields
           /\ \A finding \in Elements(FoundNow.format_errors)
                               \cup Elements(FoundNow.quality_errors)
                               \cup Elements(FoundNow.missing_agreements)
                               \cup ({FoundNow.duplicate_error} \ {None}) :
                 Reports(FirstNotice, finding)

BasicReportsAll ==
    LET found == BasicChecks[issue][dataset]
    IN (found.missing_fields # <<>> \/ found.data_issues # <<>> \/ found.is_duplicate)
          => /\ Len(comments') > Len(comments)
             /\ FirstNotice.missing = found.missing_fields
             /\ \A finding \in Elements(found.data_issues) : Reports(FirstNotice, finding)
             /\ found.is_duplicate => Reports(FirstNotice, "duplicate")

\* C4: the comment of a validation run names every missing required field, in the
\* canonical order, and every finding of every other check the validator has, in
\* the enhanced and in the basic validator.
C4_ValidationComplete ==
    [][ValidationCompleted
          => IF deploy.validator = "enhanced" THEN EnhancedReportsAll
             ELSE BasicReportsAll]_vars

\* labeling and validation have both completed on the issue as it is
FirstPassDone == platformOK /\ {"label", "validate"} \subseteq ran

\* C7: once labeling and validation have both run on an issue, running either of
\* them again on the unchanged issue leaves the label set as it was.
C7_LabelIdempotence == [][FirstPassDone => labels' = labels]_vars

Count(body) == Cardinality({i \in 1..Len(comments) : comments[i].body = body})

\* C7 witness: labeling and validation have each run twice on the same issue.
C7_Witness ==
    /\ FirstPassDone
    /\ labels # {}
    /\ Count("labeling:welcome") >= 2
    /\ \E body \in {"validation:success", "validation:completion-request",
                    "validation:missing-fields", "validation:data-quality",
                    "validation:duplicate"} : Count(body) >= 2

\* C8: once labeling and validation have both run on an issue, running either of
\* them again on the unchanged issue posts no comment.
C8_CommentSuppression == [][FirstPassDone => comments' = comments]_vars

(***************************************************************************)
(* Re-entrancy of the approval transition (specification SpecC).           *)
(***************************************************************************)
\* C9: on a healthy platform the merge trigger is emitted at most once for the
\* issue, however often its comment events are delivered and however the calls of
\* its approval runs interleave (a quorum, once reached, is reached once: the basic
\* checker has no rejection, and a rejection vetoes the enhanced one for good).
C9_TriggerAtMostOnce == dispatches <= 1

(***************************************************************************)
(* Progress to approval (specification SpecL).                             *)
(***************************************************************************)
\* the configuration a run loads while the platform is healthy
FileConfig == LoadAdminConfig(TRUE, adminsFile)

\* on the validated issue, for the rule of every category its labels name, enough
\* distinct eligible reviewers have approved and no eligible reviewer has rejected
QuorumPosted ==
    /\ "ready-for-review" \in labels
    /\ \A category \in IssueCategories(labels) :
          /\ category # None
          /\ Cardinality(ApprovingReviewers(FileConfig, category))
                >= RuleFor(FileConfig, category).min_approvals
          /\ ~Vetoed(FileConfig, category)

RejectionPosted ==
    \E category \in IssueCategories(labels) : Vetoed(FileConfig, category)

ReportsApproved ==
    \A category \in IssueCategories(labels) : StatusNow(FileConfig, category).approved

ApprovedAndTriggered == "approved" \in labels /\ dispatches > 0

RosterEntry(u) ==
    CHOOSE a \in Elements(adminsFile.admins) : a.username = u

\* the position of u's entry in the admins object
RosterIndex(u) ==
    CHOOSE i \in 1..Len(adminsFile.admins) : adminsFile.admins[i].username = u

\* the last assignment run loaded the configuration and the issue and went on to
\* look for reviewers
Selecting == assignment.stage = "selected"

AssignedRule == AssignerRuleFor(adminsFile, assignment.category)

\* the active reviewers of the directory that hold a role the rule requires
RoleEligible ==
    IF assignment.category = None THEN {}
    ELSE {a \in Elements(adminsFile.admins) :
             a.active /\ a.role \in AssignedRule.required_roles}

Declares(a, specialization) == specialization \in a.specializations

Covers(a, specialization) ==
    specialization \in a.specializations \/ Wildcard \in a.specializations

Selected == Elements(assignment.selected)

\* the issue's specialization is known and some active, role-eligible reviewer
\* declares it
SpecialistAvailable ==
    /\ Selecting
    /\ assignment.specialization # None
    /\ \E a \in RoleEligible : Declares(a, assignment.specialization)

\* C11 as stated: whenever the issue's specialization is known and an active,
\* role-eligible reviewer declares it, select_reviewers returns only reviewers
\* that match it (declare it or hold the wildcard), under the deterministic and
\* under the random strategy.
C11_SpecialistsOnly ==
    SpecialistAvailable
        => \A u \in Selected : Covers(RosterEntry(u), assignment.specialization)

\* C11 amended: with auto_assignment.prefer_specialization set, whenever the
\* issue's specialization is known and an active, role-eligible reviewer declares
\* it, select_reviewers returns only reviewers that declare it; and whenever the
\* rule sets specialization_match and the specialization is known, it returns only
\* reviewers that declare it or hold the wildcard; under either strategy.
C11_SpecialistsOnlyWhenPreferred ==
    /\ (SpecialistAvailable /\ adminsFile.auto_assignment.prefer_specialization)
          => \A u \in Selected : Declares(RosterEntry(u), assignment.specialization)
    /\ (Selecting /\ assignment.specialization # None /\ AssignedRule.specialization_match)
          => \A u \in Selected : Covers(RosterEntry(u), assignment.specialization)

\* C11 witness: under the random strategy a specialist was selected while an
\* eligible reviewer of higher role who does not declare the specialization was
\* left out.
C11_Witness ==
    /\ SpecialistAvailable
    /\ adminsFile.auto_assignment.prefer_specialization
    /\ adminsFile.auto_assignment.assignment_strategy = "random"
    /\ Selected # {}
    /\ \E a \in RoleEligible :
          /\ a.username \in Elements(assignment.eligible)
          /\ ~Declares(a, assignment.specialization)
          /\ a.username \notin Selected
          /\ \E u \in Selected : RolePriority(a.role) > RolePriority(RosterEntry(u).role)

\* C12: when the rule requires a specialization match and no active, role-eligible
\* reviewer has the issue's specialization or the wildcard, the selection falls
\* back to the active, role-eligible reviewers: it is not empty whenever some
\* active reviewer holds a required role (and max_assignees allows one).
C12_FallbackToRolePriority ==
    (/\ Selecting
     /\ adminsFile.auto_assignment.max_assignees >= 1
     /\ RoleEligible # {})
        => assignment.selected # <<>>

NoRepeat(seq) == \A i \in 1..Len(seq) : \A j \in 1..Len(seq) : seq[i] = seq[j] => i = j

\* C13: the list select_reviewers returns has at most max_assignees entries, names
\* no identity twice, and names only identities of the eligible set it was given,
\* each of them active and holding a role the rule requires.
C13_SelectionBounded ==
    /\ Len(assignment.selected) <= adminsFile.auto_assignment.max_assignees
    /\ NoRepeat(assignment.selected)
    /\ Selected \subseteq Elements(assignment.eligible)
    /\ Elements(assignment.eligible) \subseteq {a.username : a \in RoleEligible}

\* C13 witness: more reviewers were eligible than max_assignees allows, and the
\* random strategy selected max_assignees of them.
C13_Witness ==
    /\ Selecting
    /\ adminsFile.auto_assignment.assignment_strategy = "random"
    /\ adminsFile.auto_assignment.max_assignees = 2
    /\ Len(assignment.eligible) > 2
    /\ Len(assignment.selected) = 2

\* the candidate list of select_reviewers: the eligible reviewers that declare the
\* specialization if the preference applies and there is one, else all of them
CandidateSet ==
    LET specialists ==
            {u \in Elements(assignment.eligible) :
                /\ assignment.specialization # None
                /\ Declares(RosterEntry(u), assignment.specialization)}
    IN IF adminsFile.auto_assignment.prefer_specialization /\ specialists # {}
       THEN specialists
       ELSE Elements(assignment.eligible)

\* u comes before v: higher role authority, or the same role and earlier in the
\* directory
Before(u, v) ==
    LET pu == RolePriority(RosterEntry(u).role)
        pv == RolePriority(RosterEntry(v).role)
    IN pu > pv \/ (pu = pv /\ RosterIndex(u) < RosterIndex(v))

\* C14: under the deterministic strategy select_reviewers returns the first
\* max_assignees candidates in the order of role authority descending, candidates
\* of equal role in their order in the directory; no other output is possible.
C14_DeterministicOrder ==
    (Selecting /\ adminsFile.auto_assignment.assignment_strategy # "random")
        => /\ assignment.alternatives = 1
           /\ Selected \subseteq CandidateSet
           /\ Len(assignment.selected)
                 = Min(adminsFile.auto_assignment.max_assignees, Cardinality(CandidateSet))
           /\ \A i \in 1..Len(assignment.selected) : \A j \in 1..Len(assignment.selected) :
                 i < j => Before(assignment.selected[i], assignment.selected[j])
           /\ \A u \in Selected : \A v \in CandidateSet \ Selected : Before(u, v)

\* C14 witness: two candidates of equal role were selected in their directory
\* order behind a candidate of higher role that stands after them in the directory.
C14_Witness ==
    /\ Selecting
    /\ adminsFile.auto_assignment.assignment_strategy # "random"
    /\ Len(assignment.selected) = 2
    /\ Cardinality(CandidateSet) = 3
    /\ \E v \in CandidateSet \ Selected :
          /\ RosterEntry(v).role = RosterEntry(assignment.selected[2]).role
          /\ RosterIndex(assignment.selected[2]) < RosterIndex(v)
    /\ RosterIndex(assignment.selected[2]) < RosterIndex(assignment.selected[1])

\* a step of an assignment run
AssignmentStep == assignment'.runs = assignment.runs + 1

\* C15: an assignment run that finds no eligible reviewer, or selects none,
\* returns failure and leaves the assignees, the comments and the labels of the
\* issue as they were.
C15_ExhaustionChangesNothing ==
    [][(AssignmentStep /\ (assignment'.eligible = <<>> \/ assignment'.selected = <<>>))
          => /\ ~assignment'.success
             /\ assignees' = assignees
             /\ comments' = comments
             /\ labels' = labels]_vars

\* C15 witness: on a healthy platform a run loaded a directory with an active
\* reviewer in it, found none eligible for the issue and returned failure.
C15_Witness ==
    /\ platformOK
    /\ Selecting
    /\ \E a \in Elements(adminsFile.admins) : a.active
    /\ assignment.category # None
    /\ assignment.eligible = <<>>
    /\ ~assignment.success
    /\ assignees = {}
    /\ comments = <<>>

(***************************************************************************)
(* Properties of the reviewer directory in approval runs (specifications   *)
(* Spec and SpecS).                                                        *)
(***************************************************************************)
\* check_approval_status of a run whose fetch of admins.json failed
StatusWithoutFile(category) ==
    CheckApprovalStatus(LoadAdminConfig(FALSE, adminsFile), TRUE, category, issue, comments)

\* C16: in an approval run that cannot fetch or decode admins.json the roster is
\* empty: no comment author is treated as a reviewer, no approval is counted and
\* approved is not reported.
C16_EmptyRosterOnLoadFailure ==
    deploy.approver = "enhanced"
        => \A category \in IssueCategories(labels) :
              /\ ~StatusWithoutFile(category).approved
              /\ StatusWithoutFile(category).error = None
                    => StatusWithoutFile(category).current_approvals = 0

\* the author is in the directory, holds a role the rule of the category requires
\* and, if the rule sets specialization_match and the issue's specialization is
\* known, has that specialization or the wildcard
Qualified(author, cfg, category) ==
    /\ author \in DOMAIN cfg.admins
    /\ cfg.admins[author].role \in RuleFor(cfg, category).required_roles
    /\ (RuleFor(cfg, category).specialization_match /\ GetIssueSpecialization(issue) # None)
          => \/ GetIssueSpecialization(issue) \in cfg.admins[author].specializations
             \/ Wildcard \in cfg.admins[author].specializations

\* the comments of the history that count as approvals, and as rejections
ApprovalsOfQualified(cfg, category) ==
    {i \in 1..Len(comments) :
        Qualified(comments[i].author, cfg, category) /\ Approves(comments[i].body)}

RejectionsOfQualified(cfg, category) ==
    {i \in 1..Len(comments) :
        /\ Qualified(comments[i].author, cfg, category)
        /\ ~Approves(comments[i].body)
        /\ Rejects(comments[i].body)}

\* C17: the approvals and the rejections check_approval_status counts are the
\* approving and the rejecting comments of authors who are in the directory, hold
\* a required role and, where the rule asks for it and the specialization is
\* known, cover the specialization; the comments of other authors and the
\* comments matching neither pattern set add to neither count.
C17_OnlyQualifiedCounted ==
    \A cfg \in LoadableConfigs : \A category \in RuleCategories :
        LET status == StatusNow(cfg, category)
        IN /\ status.current_approvals = Cardinality(ApprovalsOfQualified(cfg, category))
           /\ Len(status.rejection_details)
                 = Cardinality(RejectionsOfQualified(cfg, category))
           /\ \A author \in Elements(status.approval_details)
                            \cup Elements(status.rejection_details) :
                 Qualified(author, cfg, category)

\* C17 witness: a member of the directory whose role the rule does not accept, or
\* who lacks the issue's specialization, approved and was not counted, while the
\* approval of a qualified member was.
C17_Witness ==
    \E category \in IssueCategories(labels) :
        LET cfg == LoadAdminConfig(TRUE, adminsFile)
        IN /\ category # None
           /\ StatusNow(cfg, category).current_approvals = 1
           /\ \E i \in 1..Len(comments) :
                 /\ comments[i].author \in DOMAIN cfg.admins
                 /\ Approves(comments[i].body)
                 /\ ~Qualified(comments[i].author, cfg, category)

(***************************************************************************)
(* Properties of duplicate detection and of the length thresholds          *)
(* (specification SpecV).                                                  *)
(***************************************************************************)
\* the fields of an issue as the deployed validator parses them
ParsedBy(validator, iss) ==
    IF validator = "enhanced" THEN ParseEnhanced(iss) ELSE ParseBasic(iss)

\* the ids of the entries of the dataset whose English term is the candidate's
\* ignoring case, or whose Korean term is the candidate's Korean translation
Conflicts ==
    [validator \in {"basic", "enhanced"} |->
        [iss \in SubmittedIssues |->
            [terms \in Datasets |->
                LET fields == ParsedBy(validator, iss)
                IN IF ~InData(fields, "term_english") THEN {}
                   ELSE {terms[k].id :
                           k \in {j \in 1..Len(terms) :
                                     \/ Lower(terms[j].english)
                                           = Lower(fields["term_english"])
                                     \/ /\ InData(fields, "term_korean")
                                        /\ terms[j].korean = fields["term_korean"]}}]]]

ConflictsNow == Conflicts[deploy.validator][issue][dataset]

\* the findings by which a notice names the entry with the given id
NamesEntry(id) == {"duplicate:english:" \o id, "duplicate:korean:" \o id}

\* C18: a validation run on a candidate with an English term, with the dataset
\* holding an entry of the same English term ignoring case or of the same Korean
\* term, reports a conflict that names such an entry and blocks the issue with
\* duplicate-found.
C18_DuplicateDetected ==
    [][(ValidationCompleted /\ ConflictsNow # {})
          => /\ "duplicate-found" \in labels'
             /\ "ready-for-review" \notin labels'
             /\ Len(comments') > Len(comments)
             /\ \E id \in ConflictsNow : \E finding \in NamesEntry(id) :
                   Reports(FirstNotice, finding)]_vars

\* the issue is the good one but for a definition of the given length
OnlyDefinitionShort(f, lengths) ==
    \E n \in lengths : issue = [GoodIssue EXCEPT !.sections[f] = Text(n)]

\* the issue is the good one but for a Korean definition under 50 characters or an
\* English definition under 30 characters, and no term of the dataset conflicts
DefinitionTooShort ==
    /\ ConflictsNow = {}
    /\ \/ OnlyDefinitionShort("definition_korean", 1..(MinKoreanDefinition - 1))
       \/ OnlyDefinitionShort("definition_english", 1..(MinEnglishDefinition - 1))

\* C19: a validation run on a submission that is complete but for a Korean
\* definition under 50 characters (or an English definition under 30) reports no
\* missing field and exactly one finding, leaves the issue blocked without
\* ready-for-review, and posts exactly one comment; with either validator.
C19_DefinitionThresholds ==
    [][(ValidationCompleted /\ DefinitionTooShort)
          => /\ Len(comments') = Len(comments) + 1
             /\ FirstNotice.missing = <<>>
             /\ Len(FirstNotice.findings) = 1
             /\ "ready-for-review" \notin labels'
             /\ labels' \cap {"needs-improvement", "invalid-format", "needs-more-info"}
                   # {}]_vars

(***************************************************************************)
(* Properties of validation across edits (specification SpecE).            *)
(***************************************************************************)
\* the validation-failure labels the deployed validator can apply
ValidatorFailureLabels ==
    IF deploy.validator = "enhanced"
    THEN {"needs-more-info", "duplicate-found", "incomplete", "invalid-format",
          "needs-improvement"}
    ELSE {"needs-completion", "needs-improvement", "duplicate-found"}

\* the deployed validator finds nothing that blocks the issue as it is
ValidationPasses ==
    IF deploy.validator = "enhanced" THEN ~HasErrors(FoundNow)
    ELSE LET found == BasicFound[issue][TRUE][dataset]
         IN /\ found.missing_fields = <<>>
            /\ found.data_issues = <<>>
            /\ ~found.is_duplicate

\* C20: after a validation run that passes, whatever labels earlier failing runs
\* left on the issue, the issue carries ready-for-review and none of the
\* validation-failure labels the deployed validator can apply.
C20_SuccessClearsFailureLabels ==
    [][(ValidationCompleted /\ ValidationPasses)
          => /\ "ready-for-review" \in labels'
             /\ labels' \cap ValidatorFailureLabels = {}]_vars

(***************************************************************************)
(* Properties of the order and the failure of platform calls               *)
(* (specification SpecO).                                                  *)
(***************************************************************************)
\* the labels that say where the contribution stands in the workflow
WorkflowStateLabels ==
    {"ready-for-review", "approved", "needs-changes", "pr-creation-failed",
     "needs-completion"} \cup EnhancedErrorLabels

\* run r has no add-labels call left to make once it has issued a remove-label call
AddsBeforeRemoves(r) ==
    procs[r].removed
       => \A i \in 1..Len(procs[r].plan) : procs[r].plan[i].op # "add"

\* C21: in every run the add-labels call for the new state comes before any
\* remove-label call for the old state, the rollback after a failed merge trigger
\* included, so that between two calls of a run whose add-labels calls succeeded
\* the issue always carries a workflow-state label.
C21_AddBeforeRemove ==
    /\ \A r \in Runs : AddsBeforeRemoves(r)
    /\ (\A r \in Runs : ~procs[r].lost) => labels \cap WorkflowStateLabels # {}

\* C22: a run in which a platform call has failed makes no further call that
\* changes the issue or emits the merge trigger (so a validation run whose dataset
\* request failed never applies ready-for-review).
C22_FailureIsTerminal ==
    [][\A r \in Runs :
          (procs[r].faults > 0 /\ procs'[r] # procs[r])
             => UNCHANGED <<labels, comments, dispatches>>]_vars

(***************************************************************************)
(* Properties of labeling across edits (specification SpecR).              *)
(***************************************************************************)
\* the contribution-type labels detect_issue_type can suggest
TypeLabels ==
    {"term-addition", "type:term-addition", "contributor-addition",
     "type:contributor-addition", "organization-addition",
     "type:organization-addition", "admin-addition", "type:admin-addition"}

\* a labeling run has completed with every call succeeding
LabelingCompleted == "label" \notin ran /\ "label" \in ran'

\* C23: after a labeling run for an edit, the contribution-type labels on the
\* issue are exactly those detected from the current body and title; those
\* detected only from an earlier version are gone.
C23_TypeLabelsReplaced ==
    [][LabelingCompleted
          => labels' \cap TypeLabels = DetectedType[issue] \cap TypeLabels]_vars

(***************************************************************************)
(* Properties of the dataset files (specification SpecD).                  *)
(***************************************************************************)
\* no record of the file comes before a record whose key, lower-cased, is smaller
Ascending(records, field) ==
    \A i \in 1..Len(records) : \A j \in (i + 1)..Len(records) :
        ~StrLess(Lower(records[j][field]), Lower(records[i][field]))

\* C24: after every completed write by a dataset writer the written array is in
\* ascending order of its primary key compared case-insensitively: english for
\* terms, the GitHub username for contributors, the name for organizations.
C24_FilesSorted ==
    /\ Ascending(dataset, "english")
    /\ Ascending(contributors, "githubUsername")
    /\ Ascending(organizations, "name")

\* a write has put a record in front of records the file held already, in each
\* of the three files
C24_Witness ==
    /\ Len(dataset) = MaxRecords /\ dataset[1].english = "Attention"
    /\ Len(contributors) > 1 /\ contributors[1].githubUsername = "alice"
    /\ Len(organizations) > 1 /\ organizations[1].name = "ACME Labs"

Distinct(records, field) ==
    \A i \in 1..Len(records) : \A j \in 1..Len(records) :
        records[i][field] = records[j][field] => i = j

\* C25: after any sequence of writer invocations no two records of a dataset file
\* share an identifier: the id of a term, the GitHub username of a contributor,
\* the name of an organization.
C25_IdentifiersUnique ==
    /\ Distinct(dataset, "id")
    /\ Distinct(contributors, "githubUsername")
    /\ Distinct(organizations, "name")

(***************************************************************************)
(* Properties of the field extractor (specification SpecX).                *)
(***************************************************************************)
\* C26: the field extractor is total: for every body, whatever its preamble, the
\* extraction ends without raising and yields a field mapping, possibly empty or
\* partial.
C26_ExtractorTotal == issueData.state # "raised"

(***************************************************************************)
(* Order independence of the aggregation (specification SpecP).            *)
(***************************************************************************)
\* what the claim compares: the decision and the two sets of identities
Verdict(status) ==
    [approved |-> status.approved,
     approving |-> Elements(status.approval_details),
     rejecting |-> Elements(status.rejection_details)]

\* the run evaluated the history in the order it received it
Evaluated == procs # <<>>

\* C27: for every comment history, check_approval_status returns the same
\* approved value, the same set of approving identities and the same set of
\* rejecting identities for every permutation of the history, for every loadable
\* directory and every rule; the basic checker's count_approvals likewise; and a
\* run that received the history in another order decides on the same calls as an
\* evaluation of the history as stored (up to the order of the names it quotes).
C27_OrderIndependent ==
    /\ \A p \in Permutations(1..Len(comments)) :
          /\ \A cfg \in LoadableConfigs : \A category \in RuleCategories :
                Verdict(CheckApprovalStatus(cfg, TRUE, category, issue, Delivered(p)))
                   = Verdict(StatusNow(cfg, category))
          /\ BasicCountApprovals(Delivered(p)) = BasicCountApprovals(comments)
    /\ Evaluated =>
          LET run == procs[1]
              stored == IF deploy.approver = "enhanced"
                        THEN EnhancedPlan(StatusNow(LoadAdminConfig(TRUE, adminsFile),
                                                    run.category))
                        ELSE BasicPlan(BasicCountApprovals(comments))
          IN /\ Len(run.plan) = Len(stored)
             /\ \A k \in 1..Len(stored) :
                   /\ run.plan[k].op = stored[k].op
                   /\ run.plan[k].labels = stored[k].labels
                   /\ run.plan[k].comment.body = stored[k].comment.body

\* C27 witness: a run received, in another order than the stored one, a history
\* with an approval that alone meets min_approvals, a rejection by another
\* eligible reviewer and a second approval by the first.
C27_Witness ==
    /\ Evaluated
    /\ deploy.approver = "enhanced"
    /\ procs[1].order # [i \in 1..Len(comments) |-> i]
    /\ LET cfg == LoadAdminConfig(TRUE, adminsFile)
           category == procs[1].category
       IN /\ category # None
          /\ StatusNow(cfg, category).min_approvals = 1
          /\ Len(comments) = 3
          /\ QualifyingApproval(comments[1], cfg, category)
          /\ QualifyingRejection(comments[2], cfg, category)
          /\ QualifyingApproval(comments[3], cfg, category)
          /\ comments[1].author # comments[2].author
          /\ comments[1].author = comments[3].author

(***************************************************************************)
(* What a comment event may drive (specification Spec).                    *)
(***************************************************************************)
\* comment c is an approval or a rejection from a reviewer of some directory a
\* checker can load, or from an admin of the basic checker
QualifyingComment(c) ==
    /\ \/ \E cfg \in LoadableConfigs : IsAdmin(c.author, cfg)
       \/ BasicIsAdmin(c.author)
    /\ Approves(c.body) \/ Rejects(c.body) \/ BasicApproves(c.body)

\* the step is the approval run for the event of comment i
HandlesEvent(i) == i \in pending /\ pending' = pending \ {i}

\* C28: an approval run triggered by a comment that is not an approval or a
\* rejection from an eligible reviewer changes no label, posts no comment and
\* emits no merge trigger, under both approval checkers and in every state.
C28_OnlyQualifyingCommentDrives ==
    [][\A i \in pending :
          (HandlesEvent(i) /\ ~QualifyingComment(comments[i]))
             => /\ labels' = labels
                /\ comments' = comments
                /\ dispatches' = dispatches]_vars

(***************************************************************************)
(* Classification of the comments of the authors' test (specification      *)
(* SpecT).                                                                 *)
(***************************************************************************)
\* is_approval_comment of the deployed checker
DeployedApproves(body) ==
    IF deploy.approver = "enhanced" THEN Approves(body) ELSE BasicApproves(body)

\* C29: is_approval_comment returns what test_approval_patterns expects for each
\* of its twelve comments (true for the nine approvals, false for the negated and
\* the rejecting sentences), and gives a comment written in another case the
\* result of its lower-case form; stated of every comment an approval run has
\* handled.
C29_ClassifiedAsTested ==
    \A i \in Reviews \ pending :
        /\ comments[i].body \in DOMAIN TestCases
              => DeployedApproves(comments[i].body) = TestCases[comments[i].body]
        /\ DeployedApproves(comments[i].body) = DeployedApproves(Lower(comments[i].body))

(***************************************************************************)
(* The roster and the platform's permissions (specification SpecW).        *)
(***************************************************************************)
\* the usernames of the roster load_admin_config returns when admins.json is served
LoadedRoster == Elements(Usernames(AssignerLoadAdminConfig(TRUE, adminsFile).admins))

\* the assignment run got past load_admin_config with a configuration
RosterLoaded == assignment.runs > 0 /\ assignment.stage # "no-config"

Elevated == {u \in DOMAIN collaborators : collaborators[u] \in {"admin", "maintain"}}

\* C30: the roster ReviewerAssigner.load_admin_config returns contains every
\* collaborator holding admin or maintain permission (admin1 and maintainer1 in
\* the test) and no collaborator holding only push/pull permission
\* (contributor1), with the role derived from the permission level.
C30_RosterFromPermissions ==
    RosterLoaded =>
        /\ LoadedRoster \cap DOMAIN collaborators = Elevated
        /\ \A k \in 1..Len(adminsFile.admins) :
              LET a == adminsFile.admins[k]
              IN a.username \in Elevated
                    => a.role = IF collaborators[a.username] = "admin" THEN "owner"
                                ELSE "maintainer"

(***************************************************************************)
(* The expert marker of the assignment comment (specification SpecA).      *)
(***************************************************************************)
\* C31: for each assigned reviewer, generate_assignment_comment marks the reviewer
\* as a domain expert if and only if the issue's specialization is known and is
\* among the specializations the reviewer declares in admins.json; a reviewer
\* holding only the wildcard marker, and every reviewer when the specialization
\* is unknown, gets no marker.
C31_ExpertMarker ==
    Selecting =>
        \A i \in 1..Len(assignment.selected) :
            LET u == assignment.selected[i]
            IN u \in assignment.marked
                  <=> /\ assignment.specialization # None
                      /\ \E k \in 1..Len(adminsFile.admins) :
                            /\ adminsFile.admins[k].username = u
                            /\ assignment.specialization
                                  \in adminsFile.admins[k].specializations

\* C31 witness: a run assigned two reviewers of an issue whose specialization is
\* known, one who declares it and is marked, one who holds only the wildcard and
\* is not.
C31_Witness ==
    /\ Selecting
    /\ assignment.specialization # None
    /\ Len(assignment.selected) = 2
    /\ \E u \in assignment.marked : \E v \in Elements(assignment.selected) :
          /\ v \notin assignment.marked
          /\ DeclaredSpecializations(v, adminsFile.admins) = {Wildcard}

(***************************************************************************)
(* Approval and the merge trigger (specification SpecO).                   *)
(***************************************************************************)
\* the last run was an approval run that reached quorum, its trigger request
\* failed, and it has made its last call
TriggerLost ==
    /\ procs # <<>>
    /\ procs[Len(procs)].kind = "approve"
    /\ procs[Len(procs)].undelivered
    /\ procs[Len(procs)].pc = "done"

\* C32: under both approval checkers, when quorum is reached and the
\* repository-dispatch request for the merge trigger fails, the run does not end
\* with the issue labeled approved: approved is removed and ready-for-review is
\* restored together with pr-creation-failed.
C32_NoApprovedWithoutTrigger ==
    TriggerLost =>
        /\ "approved" \notin labels
        /\ {"ready-for-review", "pr-creation-failed"} \subseteq labels

\* the same of the basic checker alone
C32_BasicRollsBack == deploy.approver = "basic" => C32_NoApprovedWithoutTrigger

(***************************************************************************)
(* Failure labels across failing runs (specification SpecE).               *)
(***************************************************************************)
\* the failure labels that name a kind of finding
FindingLabels == ValidatorFailureLabels \ {"needs-more-info"}

\* the failure labels the deployed validator derives from the findings on the
\* issue as it is
LabelsOfFindings ==
    IF deploy.validator = "enhanced" THEN EnhancedFailureLabels(FoundNow)
    ELSE BasicLabelsToAdd(BasicFound[issue][TRUE][dataset])

\* C33: after any sequence of failing validation runs separated by edits, the
\* failure labels on the issue (duplicate-found, incomplete, invalid-format,
\* needs-improvement; needs-completion for the basic validator) are exactly those
\* of the findings of the run that just completed: no label of a defect the
\* latest edit fixed remains while other defects still fail.
C33_FailureLabelsCurrent ==
    [][(ValidationCompleted /\ ~ValidationPasses)
          => labels' \cap FindingLabels = LabelsOfFindings \cap FindingLabels]_vars

(***************************************************************************)
(* Approval against validation failure (specification SpecI).              *)
(***************************************************************************)
\* C34: under any interleaving of issue edits (which re-run validation) and
\* comments (which re-run the approval check), the issue never carries approved
\* together with needs-more-info, incomplete, invalid-format, duplicate-found or
\* needs-improvement; an edit that fails validation after approval removes
\* approved.
C34_ApprovedExcludesFailure ==
    "approved" \in labels
        => labels \cap {"needs-more-info", "incomplete", "invalid-format",
                        "duplicate-found", "needs-improvement"} = {}

\* the second half of the same statement alone: a validation run that fails leaves
\* no approved label on the issue
C34_FailingRunRemovesApproved ==
    [][(ValidationCompleted /\ ~ValidationPasses) => "approved" \notin labels']_vars

(***************************************************************************)
(* Eligibility for assignment against eligibility of an approval           *)
(* (specification SpecA).                                                  *)
(***************************************************************************)
\* the admins.json the assigner decoded, as the approval checker reads it: the
\* admins object looked up by username, role and specializations of each entry
CheckerView(file) ==
    [admins |-> [u \in Elements(Usernames(file.admins)) |->
                    LET a == file.admins[CHOOSE k \in 1..Len(file.admins) :
                                             file.admins[k].username = u]
                    IN [role |-> a.role, specializations |-> a.specializations]],
     approval_rules |-> file.approval_rules]

\* check_approval_status would count an approval comment of u on the issue,
\* whichever label get_issue_category meets first
ApprovalCounts(u) ==
    \A category \in IssueCategories(labels) :
        /\ category # None
        /\ Eligible(u, CheckerView(adminsFile), RuleFor(CheckerView(adminsFile), category),
                    GetIssueSpecialization(issue))

\* C35: for the same admins.json, issue labels and issue body, an identity is
\* eligible for assignment by get_eligible_reviewers if and only if its approval
\* would be counted by check_approval_status; every assigned reviewer's approval
\* counts, and no inactive reviewer's approval counts.
C35_MatcherAgreesWithAggregator ==
    Selecting =>
        /\ \A u \in Elements(Usernames(adminsFile.admins)) :
              u \in Elements(assignment.eligible) <=> ApprovalCounts(u)
        /\ \A i \in 1..Len(assignment.selected) : ApprovalCounts(assignment.selected[i])
        /\ \A k \in 1..Len(adminsFile.admins) :
              ~adminsFile.admins[k].active => ~ApprovalCounts(adminsFile.admins[k].username)

(***************************************************************************)
(* The phrases of the assignment comment under the approval checker        *)
(* (specification SpecJ).                                                  *)
(***************************************************************************)
\* C36: every approval phrase and every change-request phrase the assignment
\* comment tells reviewers to post is classified by AdminApprovalChecker as an
\* approval, respectively as a rejection (the change-request phrases with and
\* without the feedback asked for); stated of every comment an approval run has
\* handled.
C36_InstructionsAreCounted ==
    deploy.approver = "enhanced" =>
        \A i \in Reviews \ pending :
            /\ comments[i].body \in InstructedApprovals => Approves(comments[i].body)
            /\ comments[i].body \in InstructedChangeRequests
                  => ~Approves(comments[i].body) /\ Rejects(comments[i].body)

(***************************************************************************)
(* One kind per contribution (specification SpecV).                        *)
(***************************************************************************)
ContributionLabels ==
    {"term-addition", "contributor-addition", "organization-addition", "admin-addition"}

\* C37: for every body and title, detect_issue_type yields at most one of the
\* contribution-type labels term-addition, contributor-addition,
\* organization-addition and admin-addition (a term submission with its
\* GitHub-username field is not also labeled contributor-addition), so that the
\* category get_issue_category reads from the labels after the labeling run does
\* not depend on the order of the labels.
C37_OneContributionKind ==
    [][LabelingCompleted
          => /\ Cardinality(DetectedType[issue] \cap ContributionLabels) <= 1
             /\ Cardinality(IssueCategories(labels')) = 1]_vars

(***************************************************************************)
(* No false duplicate (specification SpecK).                               *)
(***************************************************************************)
\* some entry of the snapshot has a non-empty English term equal, ignoring case,
\* to the candidate's, or a non-empty Korean term equal to the candidate's
\* non-empty Korean translation; tabulated over the issues and snapshots of SpecK
RealConflict ==
    [iss \in IssuesWithin(MaxDefects) |->
        [terms \in SparseDatasets |->
            LET fields == ParseEnhanced(iss)
            IN \E j \in 1..Len(terms) :
                  \/ /\ terms[j].english # ""
                     /\ InData(fields, "term_english")
                     /\ Lower(terms[j].english) = Lower(fields["term_english"])
                  \/ /\ terms[j].korean # ""
                     /\ InData(fields, "term_korean")
                     /\ Lower(terms[j].korean) = Lower(fields["term_korean"])]]

\* C38: the enhanced check_duplicate_terms reports a conflict (the run labels the
\* issue duplicate-found) only if some snapshot entry has a non-empty English
\* term equal, ignoring case, to the candidate's, or a non-empty Korean term
\* equal to the candidate's non-empty Korean translation; a candidate without a
\* Korean translation is not a duplicate of an entry that merely lacks a Korean
\* term.
C38_NoFalseDuplicate ==
    [][(ValidationCompleted /\ deploy.validator = "enhanced"
           /\ "duplicate-found" \in labels')
          => RealConflict[issue][dataset]]_vars

====
